---- MODULE Spec2Model ----
(***************************************************************************)
(* Conflict-aware calendar auto-scheduling of polylearner                  *)
(* (src/app/app.py, auto_schedule_tasks_to_calendar), its sequential       *)
(* packers (optimize_schedule, _rule_based_schedule) and the LLM-driven    *)
(* generate_intelligent_schedule (src/app/analytics_service.py).           *)
(*                                                                         *)
(* Time is an integer number of minutes since Monday 00:00 UTC of week 0;  *)
(* a datetime is such a number, a timedelta a difference of two.  The      *)
(* float time_hours of a task is carried in minutes (time_hours * 60), so  *)
(* the hour counters daily_hours are in minutes too.                       *)
(***************************************************************************)
EXTENDS Integers, Sequences, FiniteSets, TLC

VARIABLES
    calendar,          \* the external calendar: sequence of events, in creation order
    user_token,        \* [run -> BOOLEAN]  user.google_access_token is set
    now,               \* [run -> datetime] datetime.now(timezone.utc) of the run
    tasks_to_schedule, \* [run -> Seq(task)] the tasks fetched for task_ids, in input order
    pc,                \* [run -> position of the coroutine]
    busy_slots,        \* [run -> Seq(<<start, end>>)]
    daily_hours,       \* [run -> dict day_key -> minutes]
    daily_task_count,  \* [run -> dict day_key -> count]
    current_slot,      \* [run -> datetime] the search cursor of the run
    sorted_tasks,      \* [run -> Seq(task)]
    i,                 \* [run -> index into sorted_tasks of the task in hand, from 1]
    current,           \* [run -> datetime] find_next_free_slot's local `current`
    attempts,          \* [run -> Nat]      find_next_free_slot's local `attempts`
    slot,              \* [run -> <<start_time, end_time>>] the slot the search returned
    scheduled_events,  \* [run -> Seq(event record)] the list reported to the caller
    result,            \* [run -> the dictionary returned]
    calls,             \* history: [run -> Seq(create_event call and its outcome)]
    snapshot_len,      \* history: [run -> Len(calendar) when list_events answered]
    not_placed         \* history: [run -> set of task ids whose search returned (None, None)]

\* The sequential packers (optimize_schedule of src/app/app.py, _rule_based_schedule
\* of src/app/analytics_service.py) and generate_intelligent_schedule, which calls the
\* second.  One call is modelled at a time.
VARIABLES
    packer,            \* the function called: "optimize_schedule", "_rule_based_schedule",
                       \* "generate_intelligent_schedule", or "none"
    tasks,             \* argument tasks of that call, in input order
    week_start,        \* argument week_start
    daily_start,       \* argument daily_start, an hour
    daily_end,         \* argument daily_end, an hour
    llm_answer,        \* what the LLM provider gave: [kind, schedule]
    kept,              \* `schedule` of generate_intelligent_schedule: the LLM blocks kept
    call_site,         \* which call of the packer runs: "direct", "unavailable",
                       \* "complete" (_validate_and_complete_schedule) or "fallback"
    pack_tasks,        \* the packer's sorted_tasks
    task_index,        \* index into pack_tasks of the task of the for loop, from 1
    remaining,         \* the packer's `remaining`, in minutes
    cursor,            \* the packer's `cursor`
    schedule,          \* the packer's `schedule`: Seq(block)
    ppc                \* position: "idle", "generate", "begin", "pack", "returned",
                       \* "TypeError", "OverflowError"

schedVars == <<calendar, user_token, now, tasks_to_schedule, pc, busy_slots, daily_hours,
               daily_task_count, current_slot, sorted_tasks, i, current, attempts, slot,
               scheduled_events, result, calls, snapshot_len, not_placed>>

packVars == <<packer, tasks, week_start, daily_start, daily_end, llm_answer, kept, call_site,
              pack_tasks, task_index, remaining, cursor, schedule, ppc>>

\* calculate_cognitive_tax of TaskAnalyticsService: one call
VARIABLES
    tax_schedule,      \* argument schedule: Seq([category, duration_hours])
    tax_result,        \* the dictionary returned
    tax_pc             \* "idle", "call" or "returned"

taxVars == <<tax_schedule, tax_result, tax_pc>>

\* The task and goal collections and the requests that write them (create_task,
\* create_tasks_from_suggestions, delete_goal of src/app/app.py)
VARIABLES
    db_goals,          \* db.goals: the set of goal ids stored for the user
    db_tasks,          \* db.tasks: Seq(task document), in insertion order
    gcal,              \* the user's calendar as these requests see it: Seq(event)
    req                \* [request -> its arguments, position and locals]

storeVars == <<db_goals, db_tasks, gcal, req>>

\* The repair of a truncated LLM answer in suggest_tasks_for_goal
\* (src/app/goal_validation_service.py): one call
VARIABLES
    repair_source,     \* history: what the provider was writing, [objects, cut]
    repair_text,       \* tasks_content: the text after "suggested_tasks": [, a
                       \* sequence of characters
    repair_pos,        \* index into tasks_content of the character to read, from 1
    brace_depth,       \* the scanner's brace_depth
    current_task,      \* the scanner's current_task, a sequence of characters
    in_string,         \* the scanner's in_string
    escape_next,       \* the scanner's escape_next
    task_candidates,   \* the scanner's task_candidates: Seq(text)
    repair_result,     \* `tasks`: the task objects recovered
    repair_pc          \* "idle", "scan", "returned" or "JSONDecodeError"

repairVars == <<repair_source, repair_text, repair_pos, brace_depth, current_task, in_string,
                escape_next, task_candidates, repair_result, repair_pc>>

\* the variables outside the auto-scheduler and the packers
restVars == <<taxVars, storeVars, repairVars>>

vars == <<schedVars, packVars, restVars>>

----------------------------------------------------------------------------
(* Bounds of the model *)

\* tasks per run drawn freely from TaskKinds
MaxTasks == 3
\* tasks per run when two runs share the calendar
MaxRaceTasks == 1
\* last day a datetime can name (stands for datetime.max; adding past it raises
\* OverflowError)
MaxDay == 20

(* Program constants *)
MAX_DAILY_HOURS == 6
MAX_TASKS_PER_DAY == 4
max_attempts == 60
WorkStartHour == 9
WorkEndHour == 17
\* timedelta(minutes=30): the step of the search after a busy slot
SlotStepMinutes == 30
\* actual_duration < 0.5: the shortest clipped slot accepted, in minutes
MinSlotMinutes == 30
\* current_slot = end_time + timedelta(minutes=30)
SpacingMinutes == 30
DefaultPriority == 5
PreferNewDayCount == 2
WindowDays == 7

----------------------------------------------------------------------------
(* datetime arithmetic *)

Hours(h) == h * 60
Days(d) == d * 24 * 60

DayOf(t) == t \div Days(1)
HourOf(t) == (t % Days(1)) \div 60
MinuteOf(t) == t % 60
\* datetime.weekday(): Monday is 0, Saturday 5, Sunday 6
Weekday(t) == DayOf(t) % 7
\* t.replace(hour=h, minute=m) on a datetime that has no seconds
ReplaceHM(t, h, m) == Days(DayOf(t)) + Hours(h) + m
\* t.replace(hour=0, minute=0, second=0, microsecond=0)
Midnight(t) == Days(DayOf(t))
\* strftime("%Y-%m-%d")
DayKey(t) == DayOf(t)
\* (t + timedelta(days=1)).replace(hour=9, minute=0)
NextDayAtNine(t) == ReplaceHM(t + Days(1), WorkStartHour, 0)
\* a datetime beyond datetime.max cannot be built: the addition raises OverflowError
Overflows(t) == DayOf(t) > MaxDay

\* dict.get(key, 0)
Get(d, k) == IF k \in DOMAIN d THEN d[k] ELSE 0
\* d[key] = v
Put(d, k, v) == [x \in (DOMAIN d) \cup {k} |-> IF x = k THEN v ELSE d[x]]

----------------------------------------------------------------------------
(* The helpers of auto_schedule_tasks_to_calendar *)

\* a wrong overlap test: only a busy interval strictly inside the candidate counts
is_slot_free_ContainedOnly(start, end, busy) ==
    \A k \in 1..Len(busy) : ~(start < busy[k][1] /\ end > busy[k][2])

\* busy is a sequence of <<busy_start, busy_end>>
is_slot_free(start, end, busy) ==
    \A k \in 1..Len(busy) : ~(start < busy[k][2] /\ end > busy[k][1])

get_daily_load(day_key, dh, dc) == <<Get(dh, day_key), Get(dc, day_key)>>

\* the hour cap forgotten: only the task count is tested
has_daily_capacity_CountOnly(day_key, duration, dh, dc) ==
    get_daily_load(day_key, dh, dc)[2] < MAX_TASKS_PER_DAY

has_daily_capacity(day_key, duration, dh, dc) ==
    LET load == get_daily_load(day_key, dh, dc)
    IN  load[1] + duration <= Hours(MAX_DAILY_HOURS) /\ load[2] < MAX_TASKS_PER_DAY

\* while current.weekday() >= 5: current = (current + 1 day).replace(hour=9, minute=0)
RECURSIVE SkipWeekend(_)
SkipWeekend(t) ==
    IF Weekday(t) >= 5 /\ ~Overflows(t) THEN SkipWeekend(NextDayAtNine(t)) ELSE t

\* the candidate end of a slot starting at cur: cur + duration, capped at 17:00 of
\* cur's day when its hour is 17 or more
ClipsAtFive(end) ==
    HourOf(end) >= WorkEndHour \/ (HourOf(end) = WorkEndHour /\ MinuteOf(end) > 0)

\* the cap at 17:00 forgotten
CandidateEnd_Uncapped(cur, duration) == cur + duration

CandidateEnd(cur, duration) ==
    IF ClipsAtFive(cur + duration) THEN ReplaceHM(cur, WorkEndHour, 0) ELSE cur + duration

\* One pass of the body of `while attempts < max_attempts` in find_next_free_slot,
\* from (cur, att).  kind: "found" (return cur, end), "continue" (the pass ended in
\* a continue or at the loop's end), "overflow" (a datetime addition raised).
SearchPass(cur, att, duration, busy, dh, dc) ==
    LET c == SkipWeekend(cur)
        end == CandidateEnd(c, duration)
        next == NextDayAtNine(c)
        out(kind, cur2, att2, e) == [kind |-> kind, current |-> cur2, attempts |-> att2, end |-> e]
        skip == IF Overflows(next) THEN out("overflow", c, att, c)
                ELSE out("continue", next, att, c)
    IN  IF Overflows(c) THEN out("overflow", c, att, c)
        ELSE IF ~has_daily_capacity(DayKey(c), duration, dh, dc) THEN skip
        ELSE IF HourOf(c) >= WorkEndHour THEN skip
        ELSE IF Overflows(c + duration) THEN out("overflow", c, att, c)
        ELSE IF ClipsAtFive(c + duration) /\ end - c < MinSlotMinutes THEN skip
        ELSE IF is_slot_free(c, end, busy) THEN out("found", c, att, end)
        ELSE IF Overflows(c + SlotStepMinutes) THEN out("overflow", c, att, c)
        ELSE out("continue", c + SlotStepMinutes, att + 1, c)

\* key of sorted(): -(t.priority if t.priority else 5); priority 0 stands for None
PriorityOf(t) == IF t.priority # 0 THEN t.priority ELSE DefaultPriority

\* an unstable insertion: t goes before the elements of its own priority
RECURSIVE InsertByPriority_Unstable(_, _)
InsertByPriority_Unstable(s, t) ==
    IF s = << >> THEN <<t>>
    ELSE IF PriorityOf(Head(s)) > PriorityOf(t)
      THEN <<Head(s)>> \o InsertByPriority_Unstable(Tail(s), t)
    ELSE <<t>> \o s

\* sorted() is stable: t goes after every element whose priority is not lower
RECURSIVE InsertByPriority(_, _)
InsertByPriority(s, t) ==
    IF s = << >> THEN <<t>>
    ELSE IF PriorityOf(Head(s)) >= PriorityOf(t) THEN <<Head(s)>> \o InsertByPriority(Tail(s), t)
    ELSE <<t>> \o s

RECURSIVE SortByPriority(_)
SortByPriority(s) ==
    IF s = << >> THEN << >>
    ELSE InsertByPriority(SortByPriority(SubSeq(s, 1, Len(s) - 1)), s[Len(s)])

\* current_slot = now.replace(hour=9, minute=0, second=0, microsecond=0);
\* if current_slot < now: current_slot += timedelta(days=1)
InitialSlot(n) ==
    IF ReplaceHM(n, WorkStartHour, 0) < n THEN ReplaceHM(n, WorkStartHour, 0) + Days(1)
    ELSE ReplaceHM(n, WorkStartHour, 0)

\* list_events(time_min=week_start, time_max=week_end): the events of the calendar
\* that end after time_min and start before time_max, as <<start, end>> pairs
RECURSIVE EventsInWindow(_, _, _)
EventsInWindow(cal, time_min, time_max) ==
    IF cal = << >> THEN << >>
    ELSE LET e == Head(cal)
             rest == EventsInWindow(Tail(cal), time_min, time_max)
         IN  IF e.end > time_min /\ e.start < time_max THEN <<(<<e.start, e.end>>)>> \o rest
             ELSE rest

\* the dictionaries the coroutine returns
Pending == [scheduled |-> FALSE, reason |-> "pending", error_code |-> "none", events |-> << >>]
Returned(s, why, code, ev) == [scheduled |-> s, reason |-> why, error_code |-> code, events |-> ev]

\* what the try block of one loop pass leaves behind: on success the bookkeeping
\* that follows create_event, on a failure of create_event nothing (the call is
\* the first statement of the try block)
Committed(r, event_id) ==
    LET task == sorted_tasks[r][i[r]]
        start_time == slot[r][1]
        end_time == slot[r][2]
        day_key == DayKey(start_time)
    IN  [scheduled_events |-> Append(scheduled_events[r],
                                     [task_id |-> task.id, event_id |-> event_id,
                                      start_time |-> start_time, end_time |-> end_time]),
         daily_hours |-> Put(daily_hours[r], day_key, Get(daily_hours[r], day_key) + task.time_hours),
         daily_task_count |-> Put(daily_task_count[r], day_key, Get(daily_task_count[r], day_key) + 1),
         busy_slots |-> Append(busy_slots[r], <<start_time, end_time>>),
         current_slot |-> end_time + SpacingMinutes]

Untouched(r) ==
    [scheduled_events |-> scheduled_events[r], daily_hours |-> daily_hours[r],
     daily_task_count |-> daily_task_count[r], busy_slots |-> busy_slots[r],
     current_slot |-> current_slot[r]]

\* the bookkeeping done before the call of create_event, so that a failed call
\* leaves it behind
Bookkeeping_BeforeCall(r, outcome, event_id) == Committed(r, event_id)

Bookkeeping(r, outcome, event_id) ==
    IF outcome = "ok" THEN Committed(r, event_id) ELSE Untouched(r)

\* the permission error never recognised
IsPermissionError_Never(outcome) == FALSE

\* an exception is a permission error when its text holds "403" or "Forbidden"
IsPermissionError(outcome) == outcome = "forbidden"

----------------------------------------------------------------------------
(* Inputs *)

\* what create_event and list_events can answer
Outcomes == {"ok", "forbidden", "error"}

\* time_hours in minutes (0.25 h, 2 h, 4 h, 7 h); priority 0 is None
TaskKinds ==
    { [time_hours |-> 15, priority |-> 0],
      [time_hours |-> Hours(2), priority |-> 8],
      [time_hours |-> Hours(4), priority |-> 3],
      [time_hours |-> Hours(7), priority |-> 0] }

WithIds(f) ==
    [k \in DOMAIN f |-> [id |-> k, time_hours |-> f[k].time_hours, priority |-> f[k].priority]]

TaskListsUpTo(n, kinds) == { WithIds(f) : f \in UNION { [1..m -> kinds] : m \in 0..n } }

\* five tasks of two hours each
FiveTwoHourTasks == [k \in 1..5 |-> [id |-> k, time_hours |-> Hours(2), priority |-> 0]]

TaskLists == TaskListsUpTo(MaxTasks, TaskKinds) \cup {FiveTwoHourTasks}

\* now: 08:00 of every day of week 0, and 13:10 (past 09:00) of its Monday and Friday
Nows == { Days(d) + Hours(8) : d \in 0..6 } \cup { Days(d) + Hours(13) + 10 : d \in {0, 4} }

External(s, e) == [start |-> s, end |-> e, run |-> 0, task_id |-> 0]

\* calendars found at the start: empty; a meeting 09:00-09:30 every day; one event
\* that covers every day; every day taken from 09:00 to 16:00
EveryDay(from, to) == [d \in 1..(MaxDay + 1) |-> External(Days(d - 1) + from, Days(d - 1) + to)]

Calendars ==
    { << >>,
      EveryDay(Hours(9), Hours(9) + 30),
      << External(0, Days(MaxDay + 1)) >>,
      EveryDay(Hours(9), Hours(16)) }

InitWith(runs, tokens, nows, lists, calendars) ==
    /\ calendar \in calendars
    /\ user_token \in [runs -> tokens]
    /\ now \in [runs -> nows]
    /\ tasks_to_schedule \in [runs -> lists]
    /\ pc = [r \in runs |-> "start"]
    /\ busy_slots = [r \in runs |-> << >>]
    /\ daily_hours = [r \in runs |-> << >>]
    /\ daily_task_count = [r \in runs |-> << >>]
    /\ current_slot = [r \in runs |-> 0]
    /\ sorted_tasks = [r \in runs |-> << >>]
    /\ i = [r \in runs |-> 1]
    /\ current = [r \in runs |-> 0]
    /\ attempts = [r \in runs |-> 0]
    /\ slot = [r \in runs |-> <<0, 0>>]
    /\ scheduled_events = [r \in runs |-> << >>]
    /\ result = [r \in runs |-> Pending]
    /\ calls = [r \in runs |-> << >>]
    /\ snapshot_len = [r \in runs |-> 0]
    /\ not_placed = [r \in runs |-> {}]

\* calculate_cognitive_tax is not called
TaxIdle ==
    /\ tax_schedule = << >>
    /\ tax_result = << >>
    /\ tax_pc = "idle"

\* no request runs and nothing is stored
StoreIdle ==
    /\ db_goals = {}
    /\ db_tasks = << >>
    /\ gcal = << >>
    /\ req = << >>

\* the repair is not called
RepairIdle ==
    /\ repair_source = [objects |-> << >>, cut |-> 0]
    /\ repair_text = << >>
    /\ repair_pos = 1
    /\ brace_depth = 0
    /\ current_task = << >>
    /\ in_string = FALSE
    /\ escape_next = FALSE
    /\ task_candidates = << >>
    /\ repair_result = << >>
    /\ repair_pc = "idle"

RestIdle == TaxIdle /\ StoreIdle /\ RepairIdle

\* no packer is called
PackIdle ==
    /\ packer = "none"
    /\ tasks = << >>
    /\ week_start = 0
    /\ daily_start = 0
    /\ daily_end = 0
    /\ llm_answer = [kind |-> "none", schedule |-> << >>]
    /\ kept = << >>
    /\ call_site = "none"
    /\ pack_tasks = << >>
    /\ task_index = 0
    /\ remaining = 0
    /\ cursor = 0
    /\ schedule = << >>
    /\ ppc = "idle"

Init == InitWith({1}, BOOLEAN, Nows, TaskLists, Calendars) /\ PackIdle /\ RestIdle

\* two runs for one user: both hold the token, start on a Monday or a Friday
\* morning, and find the calendar empty or with the daily 09:00 meeting
RaceTaskKinds ==
    { [time_hours |-> 15, priority |-> 0], [time_hours |-> Hours(2), priority |-> 8] }

InitRace ==
    /\ InitWith({1, 2}, {TRUE}, {Hours(8), Days(4) + Hours(8)},
             TaskListsUpTo(MaxRaceTasks, RaceTaskKinds),
             { << >>, EveryDay(Hours(9), Hours(9) + 30) })
    /\ PackIdle
    /\ RestIdle

\* the runs of a behaviour, among the run ids of the model
RunIds == {1, 2}
Runs == DOMAIN pc

----------------------------------------------------------------------------
(* The steps of one run r of auto_schedule_tasks_to_calendar *)

Return(r, res) ==
    /\ pc' = [pc EXCEPT ![r] = "done"]
    /\ result' = [result EXCEPT ![r] = res]

\* entry, up to the call of list_events
Start(r) ==
    /\ r \in Runs
    /\ UNCHANGED <<packVars, restVars>>
    /\ pc[r] = "start"
    /\ IF ~user_token[r]
         THEN Return(r, Returned(FALSE, "No Google Calendar access", "none", << >>))
       ELSE IF tasks_to_schedule[r] = << >>
         THEN Return(r, Returned(FALSE, "No tasks found", "none", << >>))
       ELSE pc' = [pc EXCEPT ![r] = "list"] /\ UNCHANGED result
    /\ UNCHANGED <<calendar, user_token, now, tasks_to_schedule, busy_slots, daily_hours,
                   daily_task_count, current_slot, sorted_tasks, i, current, attempts,
                   slot, scheduled_events, calls, snapshot_len, not_placed>>

\* list_events answers; busy_slots, current_slot and sorted_tasks are set up
ListEvents(r) ==
    /\ r \in Runs
    /\ UNCHANGED <<packVars, restVars>>
    /\ pc[r] = "list"
    /\ \E outcome \in Outcomes :
         IF IsPermissionError(outcome)
           THEN /\ Return(r, Returned(FALSE, "Calendar permission denied", "calendar_permission_denied", << >>))
                /\ UNCHANGED <<busy_slots, current_slot, sorted_tasks, snapshot_len>>
           ELSE /\ busy_slots' = [busy_slots EXCEPT ![r] =
                       IF outcome = "ok"
                         THEN EventsInWindow(calendar, Midnight(now[r]), Midnight(now[r]) + Days(WindowDays))
                         ELSE << >>]
                /\ snapshot_len' = [snapshot_len EXCEPT ![r] = IF outcome = "ok" THEN Len(calendar) ELSE 0]
                /\ current_slot' = [current_slot EXCEPT ![r] = InitialSlot(now[r])]
                /\ sorted_tasks' = [sorted_tasks EXCEPT ![r] = SortByPriority(tasks_to_schedule[r])]
                /\ pc' = [pc EXCEPT ![r] = "loop"]
                /\ UNCHANGED result
    /\ UNCHANGED <<calendar, user_token, now, tasks_to_schedule, daily_hours, daily_task_count,
                   i, current, attempts, slot, scheduled_events, calls, not_placed>>

\* a new day preferred only from the third task of a day on
PreferNewDay_AtThree(r) ==
    i[r] > 1 /\ Get(daily_task_count[r], DayKey(current_slot[r])) >= PreferNewDayCount + 1

\* prefer_new_day of the task in hand
PreferNewDay(r) ==
    i[r] > 1 /\ Get(daily_task_count[r], DayKey(current_slot[r])) >= PreferNewDayCount

\* top of `for i, task in enumerate(sorted_tasks)`: the end of the run, or the entry
\* of find_next_free_slot for the next task
LoopTop(r) ==
    /\ r \in Runs
    /\ UNCHANGED <<packVars, restVars>>
    /\ pc[r] = "loop"
    /\ IF i[r] > Len(sorted_tasks[r])
         THEN /\ Return(r, Returned(TRUE, "none", "none", scheduled_events[r]))
              /\ UNCHANGED <<current, attempts>>
       ELSE LET start == IF PreferNewDay(r) THEN NextDayAtNine(current_slot[r])
                         ELSE current_slot[r]
            IN  IF Overflows(start)
                  THEN /\ Return(r, Returned(FALSE, "date value out of range", "none", << >>))
                       /\ UNCHANGED <<current, attempts>>
                  ELSE /\ current' = [current EXCEPT ![r] = start]
                       /\ attempts' = [attempts EXCEPT ![r] = 0]
                       /\ pc' = [pc EXCEPT ![r] = "search"]
                       /\ UNCHANGED result
    /\ UNCHANGED <<calendar, user_token, now, tasks_to_schedule, busy_slots, daily_hours,
                   daily_task_count, current_slot, sorted_tasks, i, slot, scheduled_events,
                   calls, snapshot_len, not_placed>>

\* one test of `attempts < max_attempts` and, when it holds, one pass of the loop body
SearchStep(r) ==
    /\ r \in Runs
    /\ UNCHANGED <<packVars, restVars>>
    /\ pc[r] = "search"
    /\ LET task == sorted_tasks[r][i[r]]
           p == SearchPass(current[r], attempts[r], task.time_hours, busy_slots[r],
                           daily_hours[r], daily_task_count[r])
       IN  IF attempts[r] >= max_attempts
             THEN /\ not_placed' = [not_placed EXCEPT ![r] = @ \cup {task.id}]
                  /\ i' = [i EXCEPT ![r] = @ + 1]
                  /\ pc' = [pc EXCEPT ![r] = "loop"]
                  /\ UNCHANGED <<current, attempts, slot, result>>
           ELSE IF p.kind = "found"
             THEN /\ slot' = [slot EXCEPT ![r] = <<p.current, p.end>>]
                  /\ current' = [current EXCEPT ![r] = p.current]
                  /\ pc' = [pc EXCEPT ![r] = "create"]
                  /\ UNCHANGED <<attempts, i, result, not_placed>>
           ELSE IF p.kind = "overflow"
             THEN /\ Return(r, Returned(FALSE, "date value out of range", "none", << >>))
                  /\ UNCHANGED <<current, attempts, slot, i, not_placed>>
           ELSE /\ current' = [current EXCEPT ![r] = p.current]
                /\ attempts' = [attempts EXCEPT ![r] = p.attempts]
                /\ UNCHANGED <<pc, slot, i, result, not_placed>>
    /\ UNCHANGED <<calendar, user_token, now, tasks_to_schedule, busy_slots, daily_hours,
                   daily_task_count, current_slot, sorted_tasks, scheduled_events, calls,
                   snapshot_len>>

\* create_event answers for the slot found
CreateEvent(r) ==
    /\ r \in Runs
    /\ UNCHANGED <<packVars, restVars>>
    /\ pc[r] = "create"
    /\ \E outcome \in Outcomes :
         LET task == sorted_tasks[r][i[r]]
             event == [start |-> slot[r][1], end |-> slot[r][2], run |-> r, task_id |-> task.id]
             after == Bookkeeping(r, outcome, Len(calendar) + 1)
         IN  /\ calls' = [calls EXCEPT ![r] = Append(@, [task |-> task, start |-> slot[r][1],
                                                         end |-> slot[r][2], outcome |-> outcome])]
             /\ calendar' = IF outcome = "ok" THEN Append(calendar, event) ELSE calendar
             /\ scheduled_events' = [scheduled_events EXCEPT ![r] = after.scheduled_events]
             /\ daily_hours' = [daily_hours EXCEPT ![r] = after.daily_hours]
             /\ daily_task_count' = [daily_task_count EXCEPT ![r] = after.daily_task_count]
             /\ busy_slots' = [busy_slots EXCEPT ![r] = after.busy_slots]
             /\ current_slot' = [current_slot EXCEPT ![r] = after.current_slot]
             /\ IF outcome # "ok" /\ IsPermissionError(outcome)
                  THEN /\ Return(r, Returned(FALSE, "Calendar write permission denied",
                                             "calendar_permission_denied", << >>))
                       /\ UNCHANGED i
                  ELSE /\ i' = [i EXCEPT ![r] = @ + 1]
                       /\ pc' = [pc EXCEPT ![r] = "loop"]
                       /\ UNCHANGED result
    /\ UNCHANGED <<user_token, now, tasks_to_schedule, sorted_tasks, current, attempts, slot,
                   snapshot_len, not_placed>>

Next == \E r \in RunIds : Start(r) \/ ListEvents(r) \/ LoopTop(r) \/ SearchStep(r) \/ CreateEvent(r)

Spec == Init /\ [][Next]_vars

\* two runs whose steps interleave; a run is suspended only at its awaits, and the
\* steps between two awaits touch nothing but the run's own variables
SpecRace == InitRace /\ [][Next]_vars

----------------------------------------------------------------------------
(* Properties of one run *)

Max(a, b) == IF a >= b THEN a ELSE b
Min(a, b) == IF a <= b THEN a ELSE b
\* the half-open intervals [s1, e1) and [s2, e2) share an instant
Overlap(s1, e1, s2, e2) == Max(s1, s2) < Min(e1, e2)

InWindowOf(r, e) == e.end > Midnight(now[r]) /\ e.start < Midnight(now[r]) + Days(WindowDays)

\* the events of the calendar that list_events gave run r
SnapshotOf(r) == { k \in 1..snapshot_len[r] : InWindowOf(r, calendar[k]) }

\* C1: the interval handed to create_event overlaps no interval of busy_slots at
\* that moment: none read from the calendar at the start of the run, none of an
\* event this run committed earlier.
C1_CommitDisjointFromBusy ==
    \A r \in Runs :
        pc[r] = "create" =>
            /\ \A k \in 1..Len(busy_slots[r]) :
                   ~Overlap(slot[r][1], slot[r][2], busy_slots[r][k][1], busy_slots[r][k][2])
            /\ \A k \in SnapshotOf(r) :
                   ~Overlap(slot[r][1], slot[r][2], calendar[k].start, calendar[k].end)
            /\ \A k \in 1..Len(scheduled_events[r]) :
                   ~Overlap(slot[r][1], slot[r][2],
                            scheduled_events[r][k].start_time, scheduled_events[r][k].end_time)

\* a commit is due after busy slots were stepped over, with calendar events in the
\* snapshot and an earlier commit of the run in busy_slots
C1_Witness ==
    \E r \in Runs :
        /\ pc[r] = "create"
        /\ attempts[r] > 0
        /\ SnapshotOf(r) # {}
        /\ Len(scheduled_events[r]) > 0

\* the events run r committed on day d, as indexes into scheduled_events
CommittedOn(r, d) ==
    { k \in 1..Len(scheduled_events[r]) : DayOf(scheduled_events[r][k].start_time) = d }

RECURSIVE SumOfDurations(_, _)
SumOfDurations(r, ks) ==
    IF ks = {} THEN 0
    ELSE LET k == CHOOSE x \in ks : TRUE
         IN  (scheduled_events[r][k].end_time - scheduled_events[r][k].start_time)
             + SumOfDurations(r, ks \ {k})

\* C2: on every day the run has committed at most MAX_TASKS_PER_DAY tasks and the
\* durations of their events total at most MAX_DAILY_HOURS hours.
C2_DailyCaps ==
    \A r \in Runs : \A d \in 0..MaxDay :
        /\ Cardinality(CommittedOn(r, d)) <= 4
        /\ SumOfDurations(r, CommittedOn(r, d)) <= 6 * 60

\* a day filled to exactly six hours by two commits
C2_Witness ==
    \E r \in Runs : \E d \in 0..MaxDay :
        /\ Cardinality(CommittedOn(r, d)) = 2
        /\ SumOfDurations(r, CommittedOn(r, d)) = 6 * 60

\* [s, e) lies within 09:00-17:00 of one day, Monday to Friday
InWorkingHours(s, e) ==
    LET day == s \div (24 * 60)
    IN  /\ s >= day * 24 * 60 + 9 * 60
        /\ e <= day * 24 * 60 + 17 * 60
        /\ s < e
        /\ day % 7 \in 0..4

\* C3: every event the run hands to create_event, and every event it has created,
\* starts at or after 09:00 and ends at or before 17:00 of one weekday.
C3_WithinWorkingHours ==
    /\ \A r \in Runs : pc[r] = "create" => InWorkingHours(slot[r][1], slot[r][2])
    /\ \A k \in 1..Len(calendar) :
           calendar[k].run # 0 => InWorkingHours(calendar[k].start, calendar[k].end)

\* a run started on a weekend has committed an event cut short at 17:00
C3_Witness ==
    \E r \in Runs : \E k \in 1..Len(calls[r]) :
        /\ Weekday(now[r]) >= 5
        /\ calls[r][k].outcome = "ok"
        /\ calls[r][k].end - calls[r][k].start < calls[r][k].task.time_hours

\* C4: the search of a task ends by returning a slot or by giving up after its
\* budget of max_attempts increments; no task makes it run on until the range of
\* datetime is used up.
C4_SearchEndsWithinBudget ==
    \A r \in Runs : pc[r] = "done" => result[r].reason # "date value out of range"

\* C5: a permission error of create_event ends the run at once: it is the last
\* call of create_event of the run, and the run returns scheduled = False with
\* error_code calendar_permission_denied.
C5_PermissionErrorStopsRun ==
    \A r \in Runs : \A k \in 1..Len(calls[r]) :
        calls[r][k].outcome = "forbidden" =>
            /\ k = Len(calls[r])
            /\ pc[r] = "done"
            /\ result[r].scheduled = FALSE
            /\ result[r].error_code = "calendar_permission_denied"

\* a permission error on the second call or later, with tasks still waiting
C5_Witness ==
    \E r \in Runs :
        /\ Len(calls[r]) >= 2
        /\ calls[r][Len(calls[r])].outcome = "forbidden"
        /\ calls[r][1].outcome = "ok"
        /\ i[r] < Len(sorted_tasks[r])

\* C6: a call of create_event that fails with another error leaves busy_slots,
\* daily_hours, daily_task_count, current_slot and scheduled_events as they were,
\* and the run goes on with the next task.
C6_FailedCommitChangesNothing ==
    [][\A r \in Runs :
          (/\ Len(calls'[r]) = Len(calls[r]) + 1
           /\ calls'[r][Len(calls'[r])].outcome = "error")
          =>
          (/\ busy_slots'[r] = busy_slots[r]
           /\ daily_hours'[r] = daily_hours[r]
           /\ daily_task_count'[r] = daily_task_count[r]
           /\ current_slot'[r] = current_slot[r]
           /\ scheduled_events'[r] = scheduled_events[r]
           /\ pc'[r] = "loop"
           /\ i'[r] = i[r] + 1)]_vars

\* a failed call between two successful ones
C6_Witness ==
    \E r \in Runs :
        /\ Len(calls[r]) >= 3
        /\ calls[r][1].outcome = "ok"
        /\ calls[r][2].outcome = "error"
        /\ calls[r][3].outcome = "ok"

\* the task ids a returned dictionary names
TaskIdsNamed(res) == { res.events[k].task_id : k \in 1..Len(res.events) }

\* C7: the dictionary a run returns at its normal end names every task for which
\* no slot was found.
C7_UnplacedTasksReported ==
    \A r \in Runs :
        (pc[r] = "done" /\ result[r].scheduled) => not_placed[r] \subseteq TaskIdsNamed(result[r])

\* priority of a task, a missing one counting as 5
EffectivePriority(t) == IF t.priority = 0 THEN 5 ELSE t.priority

\* C8: the calls of create_event of a run are in non-increasing priority, equal
\* priorities in input order, and each committed event starts 30 minutes or more
\* after the end of the one committed before it.
C8_PriorityOrderAndSpacing ==
    \A r \in Runs :
        /\ \A k \in 1..(Len(calls[r]) - 1) :
               \/ EffectivePriority(calls[r][k].task) > EffectivePriority(calls[r][k + 1].task)
               \/ /\ EffectivePriority(calls[r][k].task) = EffectivePriority(calls[r][k + 1].task)
                  /\ calls[r][k].task.id < calls[r][k + 1].task.id
        /\ \A k \in 1..(Len(scheduled_events[r]) - 1) :
               scheduled_events[r][k + 1].start_time >= scheduled_events[r][k].end_time + 30

\* three commits of tasks given lowest priority first, two of them of one priority
C8_Witness ==
    \E r \in Runs :
        /\ Len(scheduled_events[r]) = 3
        /\ EffectivePriority(tasks_to_schedule[r][1]) < EffectivePriority(tasks_to_schedule[r][2])
        /\ EffectivePriority(tasks_to_schedule[r][2]) = EffectivePriority(tasks_to_schedule[r][3])

\* the next day after d that is a weekday
NextWorkday(d) ==
    IF (d + 1) % 7 < 5 THEN d + 1 ELSE IF (d + 2) % 7 < 5 THEN d + 2 ELSE d + 3

\* the run of five two-hour tasks on an empty busy snapshot has ended with all
\* five committed
FiveTasksPlaced(r) ==
    /\ tasks_to_schedule[r] = FiveTwoHourTasks
    /\ SnapshotOf(r) = {}
    /\ pc[r] = "done"
    /\ Len(scheduled_events[r]) = 5

DayOfEvent(r, k) == scheduled_events[r][k].start_time \div (24 * 60)

----------------------------------------------------------------------------
(* Properties of two runs on one calendar *)

\* the events a and b of the calendar, both created by runs, overlap
DoubleBooked(a, b) ==
    /\ calendar[a].run # 0
    /\ calendar[b].run # 0
    /\ Overlap(calendar[a].start, calendar[a].end, calendar[b].start, calendar[b].end)

\* C10: two runs can commit overlapping events (the witness), and they do so only
\* through a stale view: whenever an event overlaps one created before it, the
\* earlier one is of another run and was not among the events list_events gave
\* the run of the later one, which tests its slots against that snapshot and its
\* own commits only.
C10_OverlapOnlyWithUnseenEvent ==
    \A a, b \in 1..Len(calendar) :
        (a < b /\ DoubleBooked(a, b)) =>
            /\ calendar[a].run # calendar[b].run
            /\ a \notin SnapshotOf(calendar[b].run)

\* both runs have returned scheduled = True and their events overlap
C10_Witness ==
    \E a, b \in 1..Len(calendar) :
        /\ a < b
        /\ DoubleBooked(a, b)
        /\ \A r \in Runs : pc[r] = "done" /\ result[r].scheduled

----------------------------------------------------------------------------
(* The sequential packers: optimize_schedule (src/app/app.py) and               *)
(* _rule_based_schedule (src/app/analytics_service.py).  The float hours of the *)
(* code (current_hour, available, block_duration, remaining) are carried in     *)
(* minutes.  A task is [id, category, priority, time_hours]; priority 0 stands  *)
(* for None.  A block is [task_id, start_time, end_time, duration_hours].       *)

\* tasks handed to a packer
MaxPackTasks == 2
\* slots in one answer of the LLM
MaxSlots == 2

\* `if 0 <= current_hour < 6` and replace(hour=6): the end of the rest period
RestEndHour == 6
\* `if current_hour >= 18`
EveningHour == 18
\* min(available, remaining, 2.0): the longest block of _rule_based_schedule, in minutes
MaxBlockMinutes == 120

\* cursor.hour + cursor.minute / 60
CurrentHour(t) == HourOf(t) * 60 + MinuteOf(t)

\* the order of the values of TaskCategory, a str enum, under <
CategoryRank(c) ==
    CASE c = "admin" -> 1
      [] c = "coding" -> 2
      [] c = "networking" -> 3
      [] c = "research" -> 4

\* a sort key that leaves the category out
OptimizeKey_NoCategory(t) ==
    <<0, -(IF t.priority # 0 THEN t.priority ELSE DefaultPriority), -t.time_hours>>

\* the sort key of optimize_schedule
OptimizeKey(t) ==
    <<CategoryRank(t.category), -(IF t.priority # 0 THEN t.priority ELSE DefaultPriority),
      -t.time_hours>>

\* the sort key of _rule_based_schedule; -(None) raises TypeError, see KeyRaises
RuleBasedKey(t) == <<CategoryRank(t.category), -t.priority, -t.time_hours>>

\* the key of _rule_based_schedule cannot be computed for some task of ts
KeyRaises(ts) == \E n \in 1..Len(ts) : ts[n].priority = 0

\* a < b for tuples of three integers
TupleLess(a, b) ==
    \/ a[1] < b[1]
    \/ a[1] = b[1] /\ a[2] < b[2]
    \/ a[1] = b[1] /\ a[2] = b[2] /\ a[3] < b[3]

\* x goes behind every element whose key is not greater: sorted() is stable
RECURSIVE InsertByKey(_, _)
InsertByKey(s, x) ==
    IF s = << >> THEN <<x>>
    ELSE IF TupleLess(x.key, Head(s).key) THEN <<x>> \o s
    ELSE <<Head(s)>> \o InsertByKey(Tail(s), x)

RECURSIVE SortByKey(_)
SortByKey(s) ==
    IF s = << >> THEN << >>
    ELSE InsertByKey(SortByKey(SubSeq(s, 1, Len(s) - 1)), s[Len(s)])

\* sorted(tasks, key=...) of the packer called
SortedTasks(ts, which) ==
    LET keyed == [n \in 1..Len(ts) |->
                    [task |-> ts[n],
                     key |-> IF which = "optimize_schedule" THEN OptimizeKey(ts[n])
                             ELSE RuleBasedKey(ts[n])]]
        sorted == SortByKey(keyed)
    IN  [n \in 1..Len(ts) |-> sorted[n].task]

\* results of one pass of `while remaining > 0`
Moved(to) == [kind |-> "move", cursor |-> to, start_time |-> 0, end_time |-> 0,
              duration_hours |-> 0]
Placed(from, to, dur) == [kind |-> "block", cursor |-> to, start_time |-> from,
                          end_time |-> to, duration_hours |-> dur]

\* a pass that fills the rest of the day whatever remains of the task
OptimizePass_FillsDay(cur, rem, ds, de) ==
    LET current_hour == CurrentHour(cur)
        block_duration == Hours(de) - current_hour
    IN  IF current_hour >= Hours(de)
          THEN Moved(ReplaceHM(cur, ds, 0) + Days(1))
          ELSE Placed(cur, cur + block_duration, block_duration)

\* a pass that goes back to daily_start of the same day when the day is full
OptimizePass_SameDay(cur, rem, ds, de) ==
    LET current_hour == CurrentHour(cur)
        block_duration == Min(Hours(de) - current_hour, rem)
    IN  IF current_hour >= Hours(de)
          THEN Moved(ReplaceHM(cur, ds, 0))
          ELSE Placed(cur, cur + block_duration, block_duration)

\* one pass of the while loop of optimize_schedule
OptimizePass(cur, rem, ds, de) ==
    LET current_hour == CurrentHour(cur)
        available == Hours(de) - current_hour
        block_duration == Min(available, rem)
    IN  IF current_hour >= Hours(de)
          THEN Moved(ReplaceHM(cur, ds, 0) + Days(1))
          ELSE Placed(cur, cur + block_duration, block_duration)

\* one pass of the while loop of _rule_based_schedule; replace(hour=23, minute=59,
\* second=59) reads 23:59 at the resolution of a minute
RuleBasedPass(cur, rem, ds, de) ==
    LET current_hour == CurrentHour(cur)
        available == IF current_hour >= Hours(EveningHour)
                       THEN Min(Hours(de) - current_hour, Hours(24) - current_hour)
                       ELSE Hours(de) - current_hour
        block_duration == Min(Min(available, rem), MaxBlockMinutes)
        block_end == cur + block_duration
    IN  IF 0 <= current_hour /\ current_hour < Hours(RestEndHour)
          THEN Moved(ReplaceHM(cur, RestEndHour, 0))
        ELSE IF Weekday(cur) >= 5
          THEN Moved(ReplaceHM(cur, ds, 0) + Days(1))
        ELSE IF current_hour >= Hours(de)
          THEN Moved(ReplaceHM(cur, RestEndHour, 0) + Days(1))
        ELSE IF HourOf(block_end) < RestEndHour /\ HourOf(cur) >= EveningHour
          THEN Placed(cur, ReplaceHM(cur, 23, 59), Hours(24) - current_hour)
        ELSE Placed(cur, block_end, block_duration)

\* the block appended for task t by a pass p
BlockOf(t, p) == [task_id |-> t.id, start_time |-> p.start_time, end_time |-> p.end_time,
                  duration_hours |-> p.duration_hours]

(* generate_intelligent_schedule: the conversion of the LLM's slots *)

\* _get_day_offset, on day_name.lower()
DayOffset(day_name) ==
    CASE day_name = "monday" -> 0
      [] day_name = "tuesday" -> 1
      [] day_name = "wednesday" -> 2
      [] day_name = "thursday" -> 3
      [] day_name = "friday" -> 4
      [] day_name = "saturday" -> 5
      [] day_name = "sunday" -> 6
      [] OTHER -> 0

\* the block a slot of the LLM names
SlotBlock(sl, ws) ==
    LET slot_date == ws + Days(DayOffset(sl.day_of_week))
        start_time == ReplaceHM(slot_date, sl.start_hour, sl.start_minute)
    IN  [task_id |-> sl.task_id, start_time |-> start_time,
         end_time |-> start_time + sl.duration_hours, duration_hours |-> sl.duration_hours]

\* the test "scheduled during rest period" on the hours of day of start and end
InRestPeriod(b) ==
    LET start_hour == CurrentHour(b.start_time)
        end_hour == CurrentHour(b.end_time)
    IN  \/ start_hour < Hours(RestEndHour) /\ start_hour >= 0
        \/ end_hour > 0 /\ end_hour <= Hours(RestEndHour)

TaskIds(ts) == { ts[n].id : n \in 1..Len(ts) }

\* the loop over result["schedule"]: slots of unknown tasks and slots in the rest
\* period are skipped, the others become blocks
ConvertSlots(slots, ts, ws) ==
    LET blocks == [n \in 1..Len(slots) |-> SlotBlock(slots[n], ws)]
        Keep(b) == b.task_id \in TaskIds(ts) /\ ~InRestPeriod(b)
    IN  SelectSeq(blocks, Keep)

\* a completion that finds no task missing
MissingTasks_None(sched, ts) == SubSeq(ts, 1, 0)

\* missing_tasks of _validate_and_complete_schedule
MissingTasks(sched, ts) ==
    LET scheduled_ids == { sched[n].task_id : n \in 1..Len(sched) }
        Missing(t) == t.id \notin scheduled_ids
    IN  SelectSeq(ts, Missing)

\* the tasks argument of the call of the packer that runs
PackInput == IF call_site = "complete" THEN MissingTasks(kept, tasks) ELSE tasks

\* the list the function called returns, once ppc = "returned"
Output == IF call_site = "complete" THEN kept \o schedule ELSE schedule

(* Inputs of the packers *)

PackTaskKinds ==
    { [category |-> "coding", priority |-> 5, time_hours |-> Hours(3)],
      [category |-> "research", priority |-> 9, time_hours |-> Hours(1)],
      [category |-> "coding", priority |-> 5, time_hours |-> Hours(10)],
      [category |-> "coding", priority |-> 9, time_hours |-> Hours(1)],
      [category |-> "admin", priority |-> 0, time_hours |-> 30],
      [category |-> "coding", priority |-> 5, time_hours |-> 0] }

PackTaskLists(n, kinds) ==
    { [k \in DOMAIN f |-> [id |-> k, category |-> f[k].category, priority |-> f[k].priority,
                           time_hours |-> f[k].time_hours]] :
        f \in UNION { [1..m -> kinds] : m \in 0..n } }

\* <<daily_start, daily_end>>: office hours, the whole day, hours inside the rest
\* period, hours that begin inside it, an evening, and two where the day does not
\* start before it ends
Windows == { <<9, 17>>, <<0, 23>>, <<2, 5>>, <<3, 10>>, <<20, 23>>, <<17, 9>>, <<9, 9>> }

\* any day of the week at 00:00, and a Wednesday afternoon
WeekStarts == { Days(d) : d \in 0..6 } \cup { Days(2) + Hours(13) + 30 }

\* no run of auto_schedule_tasks_to_calendar
SchedIdle == InitWith({}, {TRUE}, {0}, {<< >>}, {<< >>})

InitPackWith(packers, lists, starts, windows) ==
    /\ packer \in packers
    /\ tasks \in lists
    /\ week_start \in starts
    /\ \E w \in windows : daily_start = w[1] /\ daily_end = w[2]
    /\ llm_answer = [kind |-> "none", schedule |-> << >>]
    /\ kept = << >>
    /\ call_site = IF packer = "generate_intelligent_schedule" THEN "none" ELSE "direct"
    /\ pack_tasks = << >>
    /\ task_index = 0
    /\ remaining = 0
    /\ cursor = 0
    /\ schedule = << >>
    /\ ppc = IF packer = "generate_intelligent_schedule" THEN "generate" ELSE "begin"

InitPack ==
    /\ SchedIdle
    /\ RestIdle
    /\ InitPackWith({"optimize_schedule", "_rule_based_schedule"},
                    PackTaskLists(MaxPackTasks, PackTaskKinds), WeekStarts, Windows)

(* Answers of the LLM *)

LLMSlot(t, d, h, m, dur) ==
    [task_id |-> t, day_of_week |-> d, start_hour |-> h, start_minute |-> m,
     duration_hours |-> dur]

LLMSlots ==
    { LLMSlot(1, "monday", 9, 0, Hours(1)),
      LLMSlot(1, "monday", 22, 0, Hours(10)),
      LLMSlot(1, "monday", 5, 0, Hours(1)),
      LLMSlot(1, "monday", 23, 0, Hours(1)),
      LLMSlot(2, "monday", 9, 0, Hours(1)),
      LLMSlot(2, "tuesday", 23, 0, Hours(4)),
      LLMSlot(2, "someday", 14, 30, Hours(1)),
      LLMSlot(7, "monday", 10, 0, Hours(1)) }

\* the provider is absent or not available; the call or the parsing raises; or the
\* answer holds a list of slots
Answer(kind, slots) == [kind |-> kind, schedule |-> slots]

LLMAnswers ==
    {Answer("unavailable", << >>), Answer("error", << >>)}
      \cup { Answer("json", slots) : slots \in UNION { [1..m -> LLMSlots] : m \in 0..MaxSlots } }

LLMTaskKinds ==
    { [category |-> "coding", priority |-> 5, time_hours |-> Hours(3)],
      [category |-> "research", priority |-> 9, time_hours |-> Hours(1)],
      [category |-> "admin", priority |-> 0, time_hours |-> 30],
      [category |-> "coding", priority |-> 5, time_hours |-> 0] }

InitLLM ==
    /\ SchedIdle
    /\ RestIdle
    /\ InitPackWith({"generate_intelligent_schedule"},
                    PackTaskLists(MaxPackTasks, LLMTaskKinds), {0, Days(5)},
                    { <<9, 17>>, <<2, 5>> })

(* The steps of a packer *)

\* an exception leaves the packer: inside the try of generate_intelligent_schedule it
\* is caught and _rule_based_schedule is called on all tasks; anywhere else it reaches
\* the caller
Raise(err) ==
    IF call_site = "complete"
      THEN ppc' = "begin" /\ call_site' = "fallback"
      ELSE ppc' = err /\ UNCHANGED call_site

\* entry of the packer, up to the for loop
PackBegin ==
    /\ ppc = "begin"
    /\ IF PackInput = << >>
         THEN /\ schedule' = << >>
              /\ ppc' = "returned"
              /\ UNCHANGED <<call_site, pack_tasks, task_index, remaining, cursor>>
       ELSE IF packer # "optimize_schedule" /\ KeyRaises(PackInput)
         THEN /\ Raise("TypeError")
              /\ UNCHANGED <<pack_tasks, task_index, remaining, cursor, schedule>>
       ELSE LET sorted == SortedTasks(PackInput, packer)
            IN  /\ pack_tasks' = sorted
                /\ schedule' = << >>
                /\ cursor' = ReplaceHM(week_start, daily_start, 0)
                /\ task_index' = 1
                /\ remaining' = sorted[1].time_hours
                /\ ppc' = "pack"
                /\ UNCHANGED call_site
    /\ UNCHANGED <<schedVars, restVars, packer, tasks, week_start, daily_start, daily_end, llm_answer,
                   kept>>

\* the effect of a pass p of the while loop
PassStep(p) ==
    IF Overflows(p.cursor)
      THEN /\ Raise("OverflowError")
           /\ UNCHANGED <<cursor, remaining, schedule>>
      ELSE /\ cursor' = p.cursor
           /\ remaining' = remaining - p.duration_hours
           /\ schedule' = IF p.kind = "block"
                            THEN Append(schedule, BlockOf(pack_tasks[task_index], p))
                            ELSE schedule
           /\ UNCHANGED <<ppc, call_site>>

\* one pass of `while remaining > 0` in optimize_schedule
OptimizeStep ==
    /\ ppc = "pack"
    /\ packer = "optimize_schedule"
    /\ remaining > 0
    /\ PassStep(OptimizePass(cursor, remaining, daily_start, daily_end))
    /\ UNCHANGED <<schedVars, restVars, packer, tasks, week_start, daily_start, daily_end, llm_answer,
                   kept, pack_tasks, task_index>>

\* one pass of `while remaining > 0` in _rule_based_schedule
RuleBasedStep ==
    /\ ppc = "pack"
    /\ packer # "optimize_schedule"
    /\ remaining > 0
    /\ PassStep(RuleBasedPass(cursor, remaining, daily_start, daily_end))
    /\ UNCHANGED <<schedVars, restVars, packer, tasks, week_start, daily_start, daily_end, llm_answer,
                   kept, pack_tasks, task_index>>

\* `while remaining > 0` is left: the next task of the for loop, or `return schedule`
PackNextTask ==
    /\ ppc = "pack"
    /\ remaining <= 0
    /\ IF task_index < Len(pack_tasks)
         THEN /\ task_index' = task_index + 1
              /\ remaining' = pack_tasks[task_index + 1].time_hours
              /\ UNCHANGED ppc
         ELSE /\ ppc' = "returned"
              /\ UNCHANGED <<task_index, remaining>>
    /\ UNCHANGED <<schedVars, restVars, packer, tasks, week_start, daily_start, daily_end, llm_answer,
                   kept, call_site, pack_tasks, cursor, schedule>>

\* generate_intelligent_schedule up to its call of _rule_based_schedule, or to its
\* return when no task is missing
Generate ==
    /\ ppc = "generate"
    /\ IF tasks = << >>
         THEN /\ ppc' = "returned"
              /\ UNCHANGED <<llm_answer, kept, call_site>>
         ELSE \E answer \in LLMAnswers :
                /\ llm_answer' = answer
                /\ IF answer.kind = "unavailable"
                     THEN call_site' = "unavailable" /\ ppc' = "begin" /\ UNCHANGED kept
                   ELSE IF answer.kind = "error"
                     THEN call_site' = "fallback" /\ ppc' = "begin" /\ UNCHANGED kept
                   ELSE LET blocks == ConvertSlots(answer.schedule, tasks, week_start)
                        IN  /\ kept' = blocks
                            /\ call_site' = "complete"
                            /\ ppc' = IF MissingTasks(blocks, tasks) # << >> THEN "begin"
                                      ELSE "returned"
    /\ UNCHANGED <<schedVars, restVars, packer, tasks, week_start, daily_start, daily_end, pack_tasks,
                   task_index, remaining, cursor, schedule>>

NextPack == PackBegin \/ OptimizeStep \/ RuleBasedStep \/ PackNextTask

\* one call of optimize_schedule or of _rule_based_schedule
SpecPack == InitPack /\ [][NextPack]_vars

NextLLM == Generate \/ PackBegin \/ RuleBasedStep \/ PackNextTask

\* one call of generate_intelligent_schedule
SpecLLM == InitLLM /\ [][NextLLM]_vars

----------------------------------------------------------------------------
(* Properties of the sequential packers *)

\* the input the packers are specified for
ValidPackInput ==
    /\ 0 <= daily_start /\ daily_start < daily_end /\ daily_end < 24
    /\ \A n \in 1..Len(tasks) : tasks[n].time_hours > 0

SequentialPackerCalled == packer \in {"optimize_schedule", "_rule_based_schedule"}

\* the sum of duration_hours over the blocks of task id in sched
RECURSIVE BlockHours(_, _)
BlockHours(sched, id) ==
    IF sched = << >> THEN 0
    ELSE (IF Head(sched).task_id = id THEN Head(sched).duration_hours ELSE 0)
         + BlockHours(Tail(sched), id)

\* C11: on valid input, every block a sequential packer emits ends after it starts
\* and carries duration_hours = end_time - start_time, and in the schedule returned
\* the duration_hours of the blocks of each task sum to that task's time_hours.
C11_DurationsSumToTimeHours ==
    (SequentialPackerCalled /\ ValidPackInput) =>
        /\ \A n \in 1..Len(schedule) :
             /\ schedule[n].end_time > schedule[n].start_time
             /\ schedule[n].duration_hours = schedule[n].end_time - schedule[n].start_time
        /\ ppc = "returned" =>
             \A n \in 1..Len(tasks) : BlockHours(Output, tasks[n].id) = tasks[n].time_hours

\* _rule_based_schedule has returned two tasks, one of them split over several blocks
C11_Witness ==
    /\ packer = "_rule_based_schedule"
    /\ ValidPackInput
    /\ ppc = "returned"
    /\ Len(tasks) = 2
    /\ Len(Output) > 3

\* C12: on valid input, each block a sequential packer emits starts at or after the
\* end of the block emitted before it, so no two blocks of its schedule overlap.
C12_BlocksInCursorOrder ==
    (SequentialPackerCalled /\ ValidPackInput) =>
        /\ \A n \in 1..(Len(schedule) - 1) : schedule[n + 1].start_time >= schedule[n].end_time
        /\ \A a, b \in 1..Len(schedule) :
             a < b => ~Overlap(schedule[a].start_time, schedule[a].end_time,
                               schedule[b].start_time, schedule[b].end_time)

\* optimize_schedule has returned blocks of two tasks that lie on two days
C12_Witness ==
    /\ packer = "optimize_schedule"
    /\ ValidPackInput
    /\ ppc = "returned"
    /\ \E a, b \in 1..Len(Output) :
         /\ Output[a].task_id # Output[b].task_id
         /\ DayOf(Output[a].start_time) < DayOf(Output[b].start_time)

\* 0 <= daily_start < daily_end < 24
ValidHours == 0 <= daily_start /\ daily_start < daily_end /\ daily_end < 24

\* block b holds an instant of [00:00, 06:00) of some day
InRestWindow(b) ==
    \E d \in 0..(MaxDay + 1) :
        Overlap(b.start_time, b.end_time, Days(d), Days(d) + Hours(RestEndHour))

\* C13 as claimed: with valid hours, no block emitted by either sequential packer
\* holds an instant of the rest window [00:00, 06:00) of any day.
C13_NoBlockInRestWindow ==
    (SequentialPackerCalled /\ ValidHours) =>
        \A n \in 1..Len(schedule) : ~InRestWindow(schedule[n])

\* block b has an instant on a Saturday or a Sunday
OnWeekend(b) ==
    \E d \in 0..(MaxDay + 1) :
        Weekday(Days(d)) >= 5 /\ Overlap(b.start_time, b.end_time, Days(d), Days(d + 1))

\* C14 as claimed: no block emitted by either sequential packer lies on a Saturday
\* or a Sunday.
C14_NoBlockOnWeekend ==
    SequentialPackerCalled => \A n \in 1..Len(schedule) : ~OnWeekend(schedule[n])

\* C15 as claimed: on valid input both sequential packers terminate.  A loop that
\* never ends moves the cursor day after day until the datetime overflows, so the
\* claim is that no call on valid input ends in OverflowError.
C15_PackersTerminate ==
    (SequentialPackerCalled /\ ValidPackInput) => ppc # "OverflowError"

\* daily_start >= daily_end, or a task with time_hours <= 0
InvalidPackInput ==
    \/ daily_start >= daily_end
    \/ \E n \in 1..Len(tasks) : tasks[n].time_hours <= 0

\* C16 as claimed: a sequential packer called with tasks and an invalid input emits
\* no block and does not return a schedule; it ends with an error.
C16_InvalidInputRejected ==
    (SequentialPackerCalled /\ tasks # << >> /\ InvalidPackInput) =>
        /\ schedule = << >>
        /\ ppc # "returned"

\* the task of the input that has this id
TaskOf(id) == tasks[CHOOSE n \in 1..Len(tasks) : tasks[n].id = id]
PositionOf(id) == CHOOSE n \in 1..Len(tasks) : tasks[n].id = id

\* task t is to be placed before task u: category ascending, then priority
\* descending, then time_hours descending, then input order
PlacedBefore(t, u) ==
    LET ct == CategoryRank(t.category)
        cu == CategoryRank(u.category)
        pt == IF t.priority # 0 THEN t.priority ELSE DefaultPriority
        pu == IF u.priority # 0 THEN u.priority ELSE DefaultPriority
    IN  \/ ct < cu
        \/ ct = cu /\ pt > pu
        \/ ct = cu /\ pt = pu /\ t.time_hours > u.time_hours
        \/ ct = cu /\ pt = pu /\ t.time_hours = u.time_hours
             /\ PositionOf(t.id) < PositionOf(u.id)

\* the two tasks of the scenario: coding, 3 h, priority 5 and research, 1 h, priority 9
ScenarioTasks ==
    << [id |-> 1, category |-> "coding", priority |-> 5, time_hours |-> Hours(3)],
       [id |-> 2, category |-> "research", priority |-> 9, time_hours |-> Hours(1)] >>

IsScenario ==
    /\ packer = "optimize_schedule"
    /\ tasks = ScenarioTasks
    /\ week_start = 0
    /\ daily_start = 9
    /\ daily_end = 17

\* C17: in the schedule of a sequential packer, of two blocks of different tasks the
\* earlier one belongs to the task that comes first by category ascending, priority
\* descending, time_hours descending and input order (so the blocks of one task are
\* consecutive); and optimize_schedule on the scenario returns exactly task 1 at
\* Monday 09:00-12:00 followed by task 2 at Monday 12:00-13:00.
C17_OrderOfPlacement ==
    SequentialPackerCalled =>
        /\ \A a, b \in 1..Len(schedule) :
             (a < b /\ schedule[a].task_id # schedule[b].task_id)
                => PlacedBefore(TaskOf(schedule[a].task_id), TaskOf(schedule[b].task_id))
        /\ (IsScenario /\ ppc = "returned") =>
             Output = << [task_id |-> 1, start_time |-> Hours(9), end_time |-> Hours(12),
                          duration_hours |-> Hours(3)],
                         [task_id |-> 2, start_time |-> Hours(12), end_time |-> Hours(13),
                          duration_hours |-> Hours(1)] >>

\* optimize_schedule has returned on the scenario
C17_Witness == IsScenario /\ ppc = "returned" /\ Len(Output) = 2

----------------------------------------------------------------------------
(* Properties of generate_intelligent_schedule *)

GenerateReturned == packer = "generate_intelligent_schedule" /\ ppc = "returned"

\* C18: whatever the LLM answered, every input task with time_hours > 0 has at least
\* one block in the schedule generate_intelligent_schedule returns.
C18_EveryTaskCovered ==
    GenerateReturned =>
        \A n \in 1..Len(tasks) :
            tasks[n].time_hours > 0 => \E k \in 1..Len(Output) : Output[k].task_id = tasks[n].id

\* the schedule returned holds a block the LLM proposed for one task and a block
\* _rule_based_schedule packed for a task the LLM left out
C18_Witness ==
    /\ GenerateReturned
    /\ call_site = "complete"
    /\ Len(tasks) = 2
    /\ kept # << >>
    /\ schedule # << >>

\* C19 as claimed: no block proposed by the LLM that holds an instant of the rest
\* window [00:00, 06:00) is kept in the schedule.
C19_NoKeptBlockInRestWindow ==
    (packer = "generate_intelligent_schedule" /\ call_site = "complete") =>
        \A n \in 1..Len(kept) : ~InRestWindow(kept[n])

\* blocks a and b of sched belong to different tasks and share an instant
BlocksClash(sched, a, b) ==
    /\ sched[a].task_id # sched[b].task_id
    /\ Overlap(sched[a].start_time, sched[a].end_time, sched[b].start_time, sched[b].end_time)

\* C20 as claimed: the schedule _validate_and_complete_schedule returns holds no two
\* blocks of different tasks that overlap in time.
C20_NoOverlapAfterCompletion ==
    (GenerateReturned /\ call_site = "complete") =>
        \A a, b \in 1..Len(Output) : ~BlocksClash(Output, a, b)

\* the LLM gave no usable answer: the provider is absent or unavailable, or the call,
\* the parsing or the conversion raised
NoUsableAnswer == llm_answer.kind \in {"unavailable", "error"}

\* C21 as claimed: without a usable answer of the LLM, generate_intelligent_schedule
\* raises nothing, and what it returns is the schedule _rule_based_schedule packed
\* from the full task list.
C21_FallbackNeverRaises ==
    (packer = "generate_intelligent_schedule" /\ NoUsableAnswer) =>
        /\ ppc \notin {"TypeError", "OverflowError"}
        /\ ppc = "returned" =>
             /\ Output = schedule
             /\ pack_tasks = SortedTasks(tasks, "_rule_based_schedule")

----------------------------------------------------------------------------
(* calculate_cognitive_tax (src/app/analytics_service.py).  duration_hours is    *)
(* carried in minutes.  The floats of the result are carried as integers:        *)
(* cognitive_tax_score and fragmentation_score in thousandths, as round(x, 3)    *)
(* leaves them, average_block_duration in hundredths of an hour, as round(x, 2)  *)
(* leaves it.  The unrounded values are the fractions num / den.                 *)

\* blocks in one schedule handed to calculate_cognitive_tax
MaxBlocks == 4

\* `if d < 1.0`: the length under which a block is small, in minutes
SmallBlockMinutes == 60

\* a count of the adjacent pairs whose categories are equal
RECURSIVE CountSwitches_Same(_)
CountSwitches_Same(s) ==
    IF Len(s) < 2 THEN 0
    ELSE CountSwitches_Same(SubSeq(s, 1, Len(s) - 1))
         + (IF s[Len(s)].category = s[Len(s) - 1].category THEN 1 ELSE 0)

\* switches after `for i in range(1, len(schedule))`
RECURSIVE CountSwitches(_)
CountSwitches(s) ==
    IF Len(s) < 2 THEN 0
    ELSE CountSwitches(SubSeq(s, 1, Len(s) - 1))
         + (IF s[Len(s)].category # s[Len(s) - 1].category THEN 1 ELSE 0)

\* sum(durations)
RECURSIVE SumDurations(_)
SumDurations(s) == IF s = << >> THEN 0 ELSE Head(s).duration_hours + SumDurations(Tail(s))

\* sum(1 for d in durations if d < 1.0)
RECURSIVE CountSmall(_)
CountSmall(s) ==
    IF s = << >> THEN 0
    ELSE (IF Head(s).duration_hours < SmallBlockMinutes THEN 1 ELSE 0) + CountSmall(Tail(s))

\* cognitive_tax = switch_penalty * 0.6 + fragmentation * 0.2 + duration_bonus * 0.2,
\* in thousandths, as the fraction TaxNum / TaxDen
TaxNum(s) ==
    1800 * CountSwitches(s) + 600 * CountSmall(s) + Max(0, 600 * Len(s) - 5 * SumDurations(s))
TaxDen(s) == 3 * Len(s)

\* avg_duration in hundredths of an hour, as a fraction
AvgNum(s) == 5 * SumDurations(s)
AvgDen(s) == 3 * Len(s)

\* fragmentation in thousandths, as a fraction
FragNum(s) == 1000 * CountSmall(s)
FragDen(s) == Len(s)

\* round(): the integers nearest to num / den; for a value halfway between two the
\* float may lie on either side, so both are possible
Rounded(num, den) ==
    { r \in (num \div den)..((num \div den) + 1) :
        2 * (IF r * den >= num THEN r * den - num ELSE num - r * den) <= den }

\* _interpret_cognitive_tax on the unrounded score num / den thousandths
InterpretCognitiveTax(num, den) ==
    IF num < 300 * den THEN "Excellent"
    ELSE IF num < 500 * den THEN "Good"
    ELSE IF num < 700 * den THEN "Fair"
    ELSE "Poor"

\* the dictionaries calculate_cognitive_tax can return for s
CognitiveTaxResults(s) ==
    IF s = << >>
      THEN { [cognitive_tax_score |-> 0, context_switches |-> 0,
              average_block_duration |-> 0, fragmentation_score |-> 0] }
      ELSE { [cognitive_tax_score |-> t, context_switches |-> CountSwitches(s),
              average_block_duration |-> a, fragmentation_score |-> f,
              interpretation |-> InterpretCognitiveTax(TaxNum(s), TaxDen(s))] :
               t \in Rounded(TaxNum(s), TaxDen(s)),
               a \in Rounded(AvgNum(s), AvgDen(s)),
               f \in Rounded(FragNum(s), FragDen(s)) }

TaxBlockKinds ==
    { [category |-> c, duration_hours |-> d] :
        c \in {"coding", "research"}, d \in {30, 59, 60, 62, Hours(3)} }

TaxSchedules == UNION { [1..m -> TaxBlockKinds] : m \in 0..MaxBlocks }

InitTax ==
    /\ SchedIdle
    /\ PackIdle
    /\ StoreIdle
    /\ RepairIdle
    /\ tax_schedule \in TaxSchedules
    /\ tax_result = << >>
    /\ tax_pc = "call"

CalculateCognitiveTax ==
    /\ tax_pc = "call"
    /\ tax_result' \in CognitiveTaxResults(tax_schedule)
    /\ tax_pc' = "returned"
    /\ UNCHANGED <<schedVars, packVars, storeVars, repairVars, tax_schedule>>

NextTax == CalculateCognitiveTax

\* one call of calculate_cognitive_tax
SpecTax == InitTax /\ [][NextTax]_vars

----------------------------------------------------------------------------
(* Properties of calculate_cognitive_tax *)

TaxReturned == tax_pc = "returned"

\* the quantities the metrics are defined from
BlockCount == Len(tax_schedule)
AdjacentSwitches ==
    Cardinality({ n \in 1..(BlockCount - 1) :
                    tax_schedule[n].category # tax_schedule[n + 1].category })
SmallBlocks == Cardinality({ n \in 1..BlockCount : tax_schedule[n].duration_hours < 60 })
RECURSIVE MinutesUpTo(_)
MinutesUpTo(n) == IF n = 0 THEN 0 ELSE tax_schedule[n].duration_hours + MinutesUpTo(n - 1)
TotalMinutes == MinutesUpTo(BlockCount)

\* 1000 * (0.6*(switches/N) + 0.2*fragmentation + 0.2*max(0, 1 - average/2.0)) * 3N
ExactScoreTimes3N ==
    1800 * AdjacentSwitches + 600 * SmallBlocks + Max(0, 600 * BlockCount - 5 * TotalMinutes)

\* x, an integer count of units, is the value num / den rounded to the nearest unit
NearestTo(x, num, den) == 2 * x * den - 2 * num <= den /\ 2 * num - 2 * x * den <= den

FourAlternating ==
    << [category |-> "coding", duration_hours |-> 60],
       [category |-> "research", duration_hours |-> 60],
       [category |-> "coding", duration_hours |-> 60],
       [category |-> "research", duration_hours |-> 60] >>

\* C22 as claimed: for a non-empty list the fragmentation, the average and the score
\* returned are the exact values of their formulas.
C22_ExactMetrics ==
    (TaxReturned /\ BlockCount > 0) =>
        /\ tax_result.context_switches = AdjacentSwitches
        /\ tax_result.fragmentation_score * BlockCount = 1000 * SmallBlocks
        /\ tax_result.average_block_duration * 3 * BlockCount = 5 * TotalMinutes
        /\ tax_result.cognitive_tax_score * 3 * BlockCount = ExactScoreTimes3N

\* C22: for a non-empty list of N blocks calculate_cognitive_tax returns
\* context_switches = the number of adjacent pairs of different category,
\* fragmentation_score = the fraction of blocks shorter than 1 hour rounded to 3
\* decimals, average_block_duration = the mean duration rounded to 2 decimals and
\* cognitive_tax_score = 0.6*(switches/N) + 0.2*fragmentation
\* + 0.2*max(0, 1 - average/2.0) rounded to 3 decimals; for the empty list every
\* metric is 0; four 1-hour blocks of alternating category give 3, 0 and 0.55.
C22_RoundedMetrics ==
    TaxReturned =>
        /\ BlockCount > 0 =>
             /\ tax_result.context_switches = AdjacentSwitches
             /\ NearestTo(tax_result.fragmentation_score, 1000 * SmallBlocks, BlockCount)
             /\ NearestTo(tax_result.average_block_duration, 5 * TotalMinutes, 3 * BlockCount)
             /\ NearestTo(tax_result.cognitive_tax_score, ExactScoreTimes3N, 3 * BlockCount)
        /\ BlockCount = 0 =>
             tax_result = [cognitive_tax_score |-> 0, context_switches |-> 0,
                           average_block_duration |-> 0, fragmentation_score |-> 0]
        /\ tax_schedule = FourAlternating =>
             /\ tax_result.context_switches = 3
             /\ tax_result.fragmentation_score = 0
             /\ tax_result.cognitive_tax_score = 550

\* a list of three blocks, one of them short, has been scored: the fraction 1/3 is
\* returned as 0.333
C22_Witness ==
    /\ TaxReturned
    /\ BlockCount = 3
    /\ SmallBlocks = 1
    /\ AdjacentSwitches = 2
    /\ tax_result.fragmentation_score = 333

\* the band of a score given in thousandths
BandOf(score) ==
    IF score < 300 THEN "Excellent"
    ELSE IF score < 500 THEN "Good"
    ELSE IF score < 700 THEN "Fair"
    ELSE "Poor"

\* C23 as claimed: for a non-empty schedule the interpretation returned is the band
\* of the cognitive_tax_score returned beside it.
C23_InterpretationMatchesScore ==
    (TaxReturned /\ BlockCount > 0) =>
        tax_result.interpretation = BandOf(tax_result.cognitive_tax_score)

----------------------------------------------------------------------------
(* The requests that write the task collection: create_task,                    *)
(* create_tasks_from_suggestions and delete_goal (src/app/app.py).  A request is *)
(* suspended only at its awaits; each step below runs from one await of a        *)
(* database or calendar call to the next.  The call of                           *)
(* auto_schedule_tasks_to_calendar inside a request is one step here: its own    *)
(* steps are those of Spec and SpecRace.                                         *)

\* requests in flight together
MaxRequests == 2

\* a task document; calendar_event_id 0 stands for an absent field
TaskDoc(id, goal) ==
    [id |-> id, goal_id |-> goal, calendar_event_id |-> 0,
     calendar_scheduling |-> [scheduled |-> FALSE, events |-> {}]]

\* db.tasks.find_one(sort=[("id", -1)]) and next_id
NextId(docs) ==
    IF docs = << >> THEN 1
    ELSE (CHOOSE m \in { docs[n].id : n \in 1..Len(docs) } :
            \A n \in 1..Len(docs) : docs[n].id <= m) + 1

\* db.tasks.find_one({"id": id}): the index of the first document with this id, or 0
FindOne(docs, id) ==
    IF \E n \in 1..Len(docs) : docs[n].id = id
      THEN CHOOSE n \in 1..Len(docs) : docs[n].id = id /\ \A k \in 1..(n - 1) : docs[k].id # id
      ELSE 0

\* db.tasks.find({"goal_id": goal})
FindByGoal(docs, goal) == LET Of(d) == d.goal_id = goal IN SelectSeq(docs, Of)

\* db.tasks.delete_many({"goal_id": goal})
DeleteMany(docs, goal) == LET Other(d) == d.goal_id # goal IN SelectSeq(docs, Other)

\* calendar_service.delete_event for the documents that carry calendar_event_id
DeleteEventsOf(events, docs) ==
    [n \in 1..Len(events) |->
        IF \E k \in 1..Len(docs) : docs[k].calendar_event_id = events[n].event_id
          THEN [events[n] EXCEPT !.deleted = TRUE]
          ELSE events[n]]

\* the events create_event added for the task documents at the indexes ks of docs
RECURSIVE EventsFor(_, _, _)
EventsFor(events, docs, ks) ==
    IF ks = {} THEN events
    ELSE LET k == CHOOSE x \in ks : \A y \in ks : x <= y
         IN  EventsFor(Append(events, [event_id |-> Len(events) + 1, task_id |-> docs[k].id,
                                       goal_id |-> docs[k].goal_id, deleted |-> FALSE]),
                       docs, ks \ {k})

\* the ids of the events of events that were created for the task id
EventIdsOf(events, id) ==
    { events[n].event_id : n \in { m \in 1..Len(events) : events[m].task_id = id } }

Request(op, goal, count, token) ==
    [op |-> op, goal_id |-> goal, count |-> count, token |-> token, pc |-> "find_goal",
     next_id |-> 0, created |-> << >>, to_delete |-> << >>]

\* the user holds a calendar token or not; each request creates one task, creates
\* two tasks from suggestions, or deletes the goal
RequestSets ==
    UNION { { [q \in 1..m |-> Request(f[q][1], 1, f[q][2], token)] :
                f \in [1..m -> { <<"create_task", 1>>, <<"create_tasks_from_suggestions", 2>>,
                                 <<"delete_goal", 0>> }],
                token \in BOOLEAN } :
            m \in 1..MaxRequests }

InitStore ==
    /\ SchedIdle
    /\ PackIdle
    /\ TaxIdle
    /\ RepairIdle
    /\ db_goals = {1}
    /\ db_tasks = << >>
    /\ gcal = << >>
    /\ req \in RequestSets

RequestIds == 1..(MaxRequests + 1)

\* db.goals.find_one of the three handlers; HTTPException 404 when there is no goal
FindGoal(q) ==
    /\ q \in DOMAIN req
    /\ req[q].pc = "find_goal"
    /\ req' = [req EXCEPT ![q].pc =
                 IF req[q].goal_id \notin db_goals THEN "http_404"
                 ELSE IF req[q].op = "delete_goal" THEN "find_tasks"
                 ELSE "find_last"]
    /\ UNCHANGED <<schedVars, packVars, taxVars, repairVars, db_goals, db_tasks, gcal>>

\* last_task = await db.tasks.find_one(sort=[("id", -1)]) and next_id
FindLast(q) ==
    /\ q \in DOMAIN req
    /\ req[q].pc = "find_last"
    /\ req' = [req EXCEPT ![q].next_id = NextId(db_tasks), ![q].pc = "insert"]
    /\ UNCHANGED <<schedVars, packVars, taxVars, repairVars, db_goals, db_tasks, gcal>>

\* await db.tasks.insert_one(task_doc) for the next task of the request; the update
\* of the goal's task_ids that follows the last insert changes nothing modelled
InsertOne(q) ==
    /\ q \in DOMAIN req
    /\ req[q].pc = "insert"
    /\ LET id == req[q].next_id + Len(req[q].created)
       IN  /\ db_tasks' = Append(db_tasks, TaskDoc(id, req[q].goal_id))
           /\ req' = [req EXCEPT ![q].created = Append(@, id),
                                 ![q].pc = IF Len(req[q].created) + 1 = req[q].count
                                             THEN "schedule" ELSE "insert"]
    /\ UNCHANGED <<schedVars, packVars, taxVars, repairVars, db_goals, gcal>>

\* the call of auto_schedule_tasks_to_calendar on the created ids and what the
\* handler does with its result: the tasks found are fetched, events are created for
\* some of them, and the run ends normally or not; create_task stores the result of
\* a normal end as calendar_scheduling of the task
AutoSchedule(q) ==
    /\ q \in DOMAIN req
    /\ req[q].pc = "schedule"
    /\ LET fetched == { FindOne(db_tasks, req[q].created[n]) : n \in 1..Len(req[q].created) } \ {0}
       IN  IF ~req[q].token \/ fetched = {}
             THEN UNCHANGED <<db_tasks, gcal>>
             ELSE \E placed \in SUBSET fetched, scheduled \in BOOLEAN :
                    LET events == EventsFor(gcal, db_tasks, placed)
                        k == FindOne(db_tasks, req[q].next_id)
                    IN  /\ gcal' = events
                        /\ db_tasks' =
                             IF req[q].op = "create_task" /\ scheduled /\ k # 0
                               THEN [db_tasks EXCEPT ![k].calendar_scheduling =
                                       [scheduled |-> TRUE,
                                        events |-> { events[n].event_id :
                                                       n \in (Len(gcal) + 1)..Len(events) }]]
                               ELSE db_tasks
    /\ req' = [req EXCEPT ![q].pc = "done"]
    /\ UNCHANGED <<schedVars, packVars, taxVars, repairVars, db_goals>>

\* delete_goal: `async for task in tasks_cursor`
FindTasks(q) ==
    /\ q \in DOMAIN req
    /\ req[q].pc = "find_tasks"
    /\ req' = [req EXCEPT ![q].to_delete = FindByGoal(db_tasks, req[q].goal_id),
                          ![q].pc = "delete_events"]
    /\ UNCHANGED <<schedVars, packVars, taxVars, repairVars, db_goals, db_tasks, gcal>>

\* delete_goal: the calendar events of the tasks that carry calendar_event_id are
\* deleted when the user has a token
DeleteEvents(q) ==
    /\ q \in DOMAIN req
    /\ req[q].pc = "delete_events"
    /\ gcal' = IF req[q].token THEN DeleteEventsOf(gcal, req[q].to_delete) ELSE gcal
    /\ req' = [req EXCEPT ![q].pc = "delete_many"]
    /\ UNCHANGED <<schedVars, packVars, taxVars, repairVars, db_goals, db_tasks>>

\* delete_goal: await db.tasks.delete_many({"goal_id": goal_id})
DeleteTasks(q) ==
    /\ q \in DOMAIN req
    /\ req[q].pc = "delete_many"
    /\ db_tasks' = DeleteMany(db_tasks, req[q].goal_id)
    /\ req' = [req EXCEPT ![q].pc = "delete_goal"]
    /\ UNCHANGED <<schedVars, packVars, taxVars, repairVars, db_goals, gcal>>

\* delete_goal: await db.goals.delete_one and the response
DeleteGoalDoc(q) ==
    /\ q \in DOMAIN req
    /\ req[q].pc = "delete_goal"
    /\ db_goals' = db_goals \ {req[q].goal_id}
    /\ req' = [req EXCEPT ![q].pc = "done"]
    /\ UNCHANGED <<schedVars, packVars, taxVars, repairVars, db_tasks, gcal>>

NextStore ==
    \E q \in RequestIds :
        \/ FindGoal(q) \/ FindLast(q) \/ InsertOne(q) \/ AutoSchedule(q)
        \/ FindTasks(q) \/ DeleteEvents(q) \/ DeleteTasks(q) \/ DeleteGoalDoc(q)

\* requests of one user whose steps interleave at their awaits
SpecStore == InitStore /\ [][NextStore]_vars

----------------------------------------------------------------------------
(* Properties of the task collection *)

\* C24 as claimed: no two stored task documents have the same id.
C24_TaskIdsUnique ==
    \A a, b \in 1..Len(db_tasks) : a # b => db_tasks[a].id # db_tasks[b].id

\* the events that are in the calendar and were created for a task of goal g
EventsOfGoal(g) ==
    { n \in 1..Len(gcal) : gcal[n].goal_id = g /\ ~gcal[n].deleted }

\* C25 as claimed: when delete_goal succeeds for a user with calendar access, no
\* event created for a task of the goal is left in the calendar and no task of the
\* goal is left in the collection.
C25_DeleteGoalRemovesEvents ==
    [][\A q \in DOMAIN req :
         (req[q].op = "delete_goal" /\ req[q].token
            /\ req[q].pc = "delete_goal" /\ req'[q].pc = "done")
           => /\ EventsOfGoal(req[q].goal_id)' = {}
              /\ FindByGoal(db_tasks', req[q].goal_id) = << >>]_vars

----------------------------------------------------------------------------
(* The bookkeeping of a run of auto_schedule_tasks_to_calendar *)

\* C26: at every moment of a run, daily_hours[day] is the sum of the durations
\* (end minus start) of the events the run has committed on that day, also when an
\* event was cut to end at 17:00.
C26_DailyHoursAreEventDurations ==
    \A r \in Runs : \A d \in 0..MaxDay :
        Get(daily_hours[r], d) = SumOfDurations(r, CommittedOn(r, d))

\* block b lies inside the working hours of the day it starts on
InsideWorkingHours(b) ==
    /\ b.start_time >= Days(DayOf(b.start_time)) + Hours(daily_start)
    /\ b.end_time <= Days(DayOf(b.start_time)) + Hours(daily_end)

\* C27: with valid hours, every block emitted by _rule_based_schedule starts at or
\* after daily_start:00 and ends at or before daily_end:00 of its day, on the first
\* day and on every later day.
C27_BlocksInsideWorkingHours ==
    (packer = "_rule_based_schedule" /\ ValidHours) =>
        \A n \in 1..Len(schedule) : InsideWorkingHours(schedule[n])

----------------------------------------------------------------------------
(* The repair of a truncated task list (suggest_tasks_for_goal) *)

\* objects of the task list the provider was writing
MaxObjects == 2

\* A character of the text is a string: the characters the scanner tells apart
\* stand for themselves, a run of other characters (a word, a number) is one string.
Quote == "\""
Backslash == "\\"
Blank == " "

(* The text the provider writes: objects of members; a value is a string, a
   number or an object.  Every character carries a mark that says whether it
   lies inside a string literal, between its quotes. *)
StringValue(chars) == [kind |-> "string", chars |-> chars, members |-> << >>]
NumberValue(text) == [kind |-> "number", chars |-> <<text>>, members |-> << >>]
ObjectValue(members) == [kind |-> "object", chars |-> << >>, members |-> members]
Member(key, value) == [key |-> key, value |-> value]

Mark(chars, lit) == [n \in 1..Len(chars) |-> [c |-> chars[n], lit |-> lit]]

RenderString(chars) == Mark(<<Quote>>, FALSE) \o Mark(chars, TRUE) \o Mark(<<Quote>>, FALSE)

RECURSIVE RenderValue(_)
RECURSIVE RenderMembers(_)
RenderValue(v) ==
    IF v.kind = "string" THEN RenderString(v.chars)
    ELSE IF v.kind = "number" THEN Mark(v.chars, FALSE)
    ELSE Mark(<<"{">>, FALSE) \o RenderMembers(v.members) \o Mark(<<"}">>, FALSE)

RenderMembers(ms) ==
    IF ms = << >> THEN << >>
    ELSE RenderString(<<Head(ms).key>>) \o Mark(<<":", Blank>>, FALSE) \o RenderValue(Head(ms).value)
         \o (IF Tail(ms) = << >> THEN << >> ELSE Mark(<<",">>, FALSE) \o RenderMembers(Tail(ms)))

\* the objects of a list, the first after a line break, the others after ", "
RECURSIVE RenderObjects(_)
RenderObjects(objs) ==
    IF objs = << >> THEN << >>
    ELSE RenderObjects(SubSeq(objs, 1, Len(objs) - 1))
         \o Mark(IF Len(objs) = 1 THEN <<Blank>> ELSE <<",", Blank>>, FALSE)
         \o RenderValue(objs[Len(objs)])

Chars(marked) == [n \in 1..Len(marked) |-> marked[n].c]

\* tasks_content of a source: the list written so far
TasksContent(src) == SubSeq(Chars(RenderObjects(src.objects)), 1, src.cut)

Required(title) ==
    << Member("title", StringValue(title)), Member("category", StringValue(<<"research">>)),
       Member("time_hours", NumberValue("2.5")) >>

\* the objects a list is made of: a plain task; a title with braces and an escaped
\* quote in it; a title that ends with an escaped backslash, with a priority and a
\* nested object; a task without category whose goal is a closing brace
ObjectKinds ==
    { ObjectValue(Required(<<"Study">>)),
      ObjectValue(Required(<<"{", Backslash, Quote, "}">>)),
      ObjectValue(Required(<<"Study", Backslash, Backslash>>)
                    \o <<Member("priority", NumberValue("9")),
                         Member("meta", ObjectValue(<<Member("note", StringValue(<<"{">>))>>))>>),
      ObjectValue(<<Member("title", StringValue(<<"Study">>)),
                    Member("time_hours", NumberValue("2.5")),
                    Member("goal", StringValue(<<"}">>))>>) }

ObjectLists == UNION { [1..m -> ObjectKinds] : m \in 0..MaxObjects }

RepairSources ==
    UNION { { [objects |-> objs, cut |-> n] : n \in 0..Len(RenderObjects(objs)) } :
            objs \in ObjectLists }

(* the scanner *)

\* str.strip() of a text whose only whitespace is the blank
RECURSIVE StripLeft(_)
StripLeft(s) == IF s # << >> /\ Head(s) = Blank THEN StripLeft(Tail(s)) ELSE s

RECURSIVE StripRight(_)
StripRight(s) ==
    IF s # << >> /\ s[Len(s)] = Blank THEN StripRight(SubSeq(s, 1, Len(s) - 1)) ELSE s

Strip(s) == StripRight(StripLeft(s))

\* a scanner that takes every quote for the end or the start of a string
ScanChar_NoEscape(char, st) ==
    LET ins == IF char = Quote THEN ~st.in_string ELSE st.in_string
        app == Append(st.current_task, char)
        plain == [st EXCEPT !.in_string = ins]
    IN  IF ins THEN [plain EXCEPT !.current_task = app]
        ELSE IF char = "{"
          THEN [plain EXCEPT !.current_task = IF st.brace_depth = 0 THEN <<"{">> ELSE app,
                             !.brace_depth = st.brace_depth + 1]
        ELSE IF char = "}"
          THEN IF st.brace_depth - 1 = 0 /\ Strip(app) # << >>
                 THEN [plain EXCEPT !.brace_depth = 0, !.current_task = << >>,
                                    !.task_candidates = Append(st.task_candidates, Strip(app))]
                 ELSE [plain EXCEPT !.brace_depth = st.brace_depth - 1, !.current_task = app]
        ELSE IF st.brace_depth > 0 THEN [plain EXCEPT !.current_task = app]
        ELSE plain

\* one pass of `for i, char in enumerate(tasks_content)` from the locals st
ScanChar(char, st) ==
    LET ins == IF char = Quote THEN ~st.in_string ELSE st.in_string
        app == Append(st.current_task, char)
        plain == [st EXCEPT !.in_string = ins]
    IN  IF st.escape_next THEN [st EXCEPT !.escape_next = FALSE, !.current_task = app]
        ELSE IF char = Backslash THEN [st EXCEPT !.escape_next = TRUE, !.current_task = app]
        ELSE IF ins THEN [plain EXCEPT !.current_task = app]
        ELSE IF char = "{"
          THEN [plain EXCEPT !.current_task = IF st.brace_depth = 0 THEN <<"{">> ELSE app,
                             !.brace_depth = st.brace_depth + 1]
        ELSE IF char = "}"
          THEN IF st.brace_depth - 1 = 0 /\ Strip(app) # << >>
                 THEN [plain EXCEPT !.brace_depth = 0, !.current_task = << >>,
                                    !.task_candidates = Append(st.task_candidates, Strip(app))]
                 ELSE [plain EXCEPT !.brace_depth = st.brace_depth - 1, !.current_task = app]
        ELSE IF st.brace_depth > 0 THEN [plain EXCEPT !.current_task = app]
        ELSE plain

(* json.loads of a candidate *)

\* the character at p, "" past the end of the text
At(s, p) == IF p \in 1..Len(s) THEN s[p] ELSE ""

RECURSIVE SkipBlanks(_, _)
SkipBlanks(s, p) == IF At(s, p) = Blank THEN SkipBlanks(s, p + 1) ELSE p

\* the index of the quote that closes the string whose content starts at p; 0 when
\* the text ends first or an escape is not one of JSON's
RECURSIVE StringEnd(_, _)
StringEnd(s, p) ==
    IF p > Len(s) THEN 0
    ELSE IF s[p] = Quote THEN p
    ELSE IF s[p] = Backslash
      THEN IF At(s, p + 1) \in {Quote, Backslash} THEN StringEnd(s, p + 2) ELSE 0
    ELSE StringEnd(s, p + 1)

\* the members of an object from p, the first character of a key, up to and with
\* the closing brace: next is the index after the brace, 0 when the text is not JSON;
\* pairs are the keys and the texts of their values; ValueEnd is the index after
\* the value that starts at p (the texts "2.5", "9" and "5" are the numbers)
RECURSIVE ParseMembers(_, _, _)
RECURSIVE ValueEnd(_, _)
ParseObject(s, p) ==
    LET q == SkipBlanks(s, p + 1)
    IN  IF At(s, p) # "{" THEN [next |-> 0, pairs |-> << >>]
        ELSE IF At(s, q) = "}" THEN [next |-> q + 1, pairs |-> << >>]
        ELSE ParseMembers(s, q, << >>)

ValueEnd(s, p) ==
    IF At(s, p) = Quote
      THEN LET e == StringEnd(s, p + 1) IN IF e = 0 THEN 0 ELSE e + 1
    ELSE IF At(s, p) \in {"2.5", "9", "5"} THEN p + 1
    ELSE IF At(s, p) = "{" THEN ParseObject(s, p).next
    ELSE 0

ParseMembers(s, p, acc) ==
    LET e == IF At(s, p) = Quote THEN StringEnd(s, p + 1) ELSE 0
        colon == SkipBlanks(s, e + 1)
        v == SkipBlanks(s, colon + 1)
        ve == ValueEnd(s, v)
        w == SkipBlanks(s, ve)
        pairs == Append(acc, [key |-> SubSeq(s, p + 1, e - 1), value |-> SubSeq(s, v, ve - 1)])
    IN  IF e = 0 \/ At(s, colon) # ":" \/ ve = 0 THEN [next |-> 0, pairs |-> << >>]
        ELSE IF At(s, w) = "," THEN ParseMembers(s, SkipBlanks(s, w + 1), pairs)
        ELSE IF At(s, w) = "}" THEN [next |-> w + 1, pairs |-> pairs]
        ELSE [next |-> 0, pairs |-> << >>]

\* the dictionary of a sequence of pairs: a later pair of a key replaces an earlier
RECURSIVE DictOf(_)
DictOf(pairs) ==
    IF pairs = << >> THEN << >>
    ELSE LET d == DictOf(SubSeq(pairs, 1, Len(pairs) - 1))
             last == pairs[Len(pairs)]
         IN  [k \in (DOMAIN d) \cup {last.key} |-> IF k = last.key THEN last.value ELSE d[k]]

\* json.loads(candidate): ok is FALSE for JSONDecodeError
JsonLoads(s) ==
    LET p == SkipBlanks(s, 1)
        r == ParseObject(s, p)
    IN  IF r.next # 0 /\ SkipBlanks(s, r.next) = Len(s) + 1
          THEN [ok |-> TRUE, obj |-> DictOf(r.pairs)]
          ELSE [ok |-> FALSE, obj |-> << >>]

\* the defaults of the keys a task object may lack
Defaults ==
    ( <<"goal">> :> <<Quote, "Task goal", Quote>> ) @@
    ( <<"artifact">> :> <<Quote, "notes", Quote>> ) @@
    ( <<"priority">> :> <<"5">> ) @@
    ( <<"energy_level">> :> <<Quote, "medium", Quote>> ) @@
    ( <<"batch_group">> :> <<Quote, "General", Quote>> ) @@
    ( <<"dependencies">> :> <<"[", "]">> )

\* task_obj.setdefault(key, default) for every key of Defaults
SetDefaults(obj) ==
    [k \in (DOMAIN obj) \cup (DOMAIN Defaults) |-> IF k \in DOMAIN obj THEN obj[k] ELSE Defaults[k]]

\* `for candidate in task_candidates`: the tasks recovered
RECURSIVE RecoverTasks(_)
RecoverTasks(cands) ==
    IF cands = << >> THEN << >>
    ELSE LET before == RecoverTasks(SubSeq(cands, 1, Len(cands) - 1))
             loaded == JsonLoads(cands[Len(cands)])
         IN  IF loaded.ok /\ { <<"title">>, <<"category">>, <<"time_hours">> } \subseteq DOMAIN loaded.obj
               THEN Append(before, SetDefaults(loaded.obj))
               ELSE before

(* The steps of the repair *)

InitRepair ==
    /\ SchedIdle
    /\ PackIdle
    /\ TaxIdle
    /\ StoreIdle
    /\ repair_source \in RepairSources
    /\ repair_text = TasksContent(repair_source)
    /\ repair_pos = 1
    /\ brace_depth = 0
    /\ current_task = << >>
    /\ in_string = FALSE
    /\ escape_next = FALSE
    /\ task_candidates = << >>
    /\ repair_result = << >>
    /\ repair_pc = "scan"

\* the scanner reads one character
Scan ==
    /\ repair_pc = "scan"
    /\ repair_pos <= Len(repair_text)
    /\ LET locals == [brace_depth |-> brace_depth, current_task |-> current_task,
                      in_string |-> in_string, escape_next |-> escape_next,
                      task_candidates |-> task_candidates]
           st == ScanChar(repair_text[repair_pos], locals)
       IN  /\ brace_depth' = st.brace_depth
           /\ current_task' = st.current_task
           /\ in_string' = st.in_string
           /\ escape_next' = st.escape_next
           /\ task_candidates' = st.task_candidates
    /\ repair_pos' = repair_pos + 1
    /\ UNCHANGED <<schedVars, packVars, taxVars, storeVars, repair_source, repair_text,
                   repair_result, repair_pc>>

\* the text is read: the candidates are loaded; without a task recovered json_err
\* is raised again
ParseCandidates ==
    /\ repair_pc = "scan"
    /\ repair_pos > Len(repair_text)
    /\ repair_result' = RecoverTasks(task_candidates)
    /\ repair_pc' = IF RecoverTasks(task_candidates) # << >> THEN "returned" ELSE "JSONDecodeError"
    /\ UNCHANGED <<schedVars, packVars, taxVars, storeVars, repair_source, repair_text,
                   repair_pos, brace_depth, current_task, in_string, escape_next,
                   task_candidates>>

NextRepair == Scan \/ ParseCandidates

SpecRepair == InitRepair /\ [][NextRepair]_vars

(* Properties of the repair *)

\* the whole list the provider was writing, every character with its mark
SourceText == RenderObjects(repair_source.objects)

\* object k of the list was written to its closing brace
WrittenWhole(k) ==
    Len(RenderObjects(SubSeq(repair_source.objects, 1, k))) <= repair_source.cut

\* the objects written whole, in order, as indexes into the list
CompleteObjects ==
    SelectSeq([k \in 1..Len(repair_source.objects) |-> k], WrittenWhole)

TextOfObject(k) == Chars(RenderValue(repair_source.objects[k]))

\* the braces outside string literals among the first n characters of a marked
\* text: opened minus closed
RECURSIVE OpenBraces(_, _)
OpenBraces(text, n) ==
    IF n = 0 THEN 0
    ELSE OpenBraces(text, n - 1)
         + (IF ~text[n].lit /\ text[n].c = "{" THEN 1
            ELSE IF ~text[n].lit /\ text[n].c = "}" THEN -1 ELSE 0)

\* the fields the provider wrote in object k, each with the text of its value
FieldsOf(k) ==
    LET ms == repair_source.objects[k].members
        ValueOf(key) == ms[CHOOSE n \in 1..Len(ms) : <<ms[n].key>> = key].value
    IN  [key \in { <<ms[n].key>> : n \in 1..Len(ms) } |-> Chars(RenderValue(ValueOf(key)))]

HasRequiredFields(k) ==
    { <<"title">>, <<"category">>, <<"time_hours">> } \subseteq DOMAIN FieldsOf(k)

\* object k as it is to be kept: its fields, and the default of every field of
\* goal, artifact, priority, energy_level, batch_group, dependencies it lacks
KeptForm(k) ==
    LET f == FieldsOf(k)
        Default(key) ==
            IF key = <<"goal">> THEN <<Quote, "Task goal", Quote>>
            ELSE IF key = <<"artifact">> THEN <<Quote, "notes", Quote>>
            ELSE IF key = <<"priority">> THEN <<"5">>
            ELSE IF key = <<"energy_level">> THEN <<Quote, "medium", Quote>>
            ELSE IF key = <<"batch_group">> THEN <<Quote, "General", Quote>>
            ELSE <<"[", "]">>
    IN  [key \in (DOMAIN f) \cup { <<"goal">>, <<"artifact">>, <<"priority">>, <<"energy_level">>,
                                   <<"batch_group">>, <<"dependencies">> } |->
           IF key \in DOMAIN f THEN f[key] ELSE Default(key)]

RepairEnded == repair_pc \in {"returned", "JSONDecodeError"}

\* C28: while the scanner reads the text after "suggested_tasks": [, brace_depth is
\* the number of braces open outside string literals, so that a brace inside a
\* literal and a backslash-escaped quote never change it; when the text is read the
\* candidates are exactly the objects written whole before the truncation point, in
\* order, the truncated last object giving none; and the tasks kept are the
\* candidates that have title, category and time_hours, with the defaults filled
\* for the fields they lack.
C28_RepairRecoversCompleteObjects ==
    /\ repair_pc = "scan" => brace_depth = OpenBraces(SourceText, repair_pos - 1)
    /\ RepairEnded =>
         /\ Len(task_candidates) = Len(CompleteObjects)
         /\ \A n \in 1..Len(task_candidates) :
                task_candidates[n] = TextOfObject(CompleteObjects[n])
    /\ RepairEnded =>
         LET keep == SelectSeq(CompleteObjects, HasRequiredFields)
         IN  /\ Len(repair_result) = Len(keep)
             /\ \A n \in 1..Len(keep) : repair_result[n] = KeptForm(keep[n])

\* a list cut inside its second object, whose first object has an escaped quote
\* and braces in its title: the first object is recovered with its defaults
C28_Witness ==
    /\ repair_pc = "returned"
    /\ Len(repair_source.objects) = 2
    /\ ~WrittenWhole(2)
    /\ repair_source.cut > Len(RenderObjects(SubSeq(repair_source.objects, 1, 1))) + 3
    /\ LET text == SourceText
       IN  \E n \in 1..(repair_source.cut - 1) :
               /\ text[n].lit /\ text[n].c = Backslash
               /\ text[n + 1].c = Quote
               /\ \E m \in (n + 2)..repair_source.cut :
                      text[m].lit /\ text[m].c \in {"{", "}"}
    /\ Len(repair_result) = 1
    /\ repair_result[1][<<"priority">>] = <<"5">>

CreatedBy(r) == { k \in 1..Len(calendar) : calendar[k].run = r }

\* the event ids the dictionary returned by run r lists
EventIdsListed(r) == { result[r].events[k].event_id : k \in 1..Len(result[r].events) }

\* C30: when a run has returned, by its normal end, by a permission error on a
\* later task or by an unexpected exception, every event it created in the calendar
\* is listed in the dictionary it returned.
C30_CreatedEventsAreReported ==
    \A r \in Runs : pc[r] = "done" => CreatedBy(r) \subseteq EventIdsListed(r)

====
